---------------------------- MODULE Spec2Model ----------------------------
(***************************************************************************)
(* A model of the real-time control and suppression pipeline of the       *)
(* semantic noise suppressor (desktop/src and training/models).           *)
(*                                                                         *)
(* Numbers.  Confidences and gains are the source's floats in [0,1],      *)
(* kept here as integers in hundredths (0.7 is 70, 1.0 is ONE).  The       *)
(* clock time.time() is an integer number of seconds that never goes      *)
(* back; HOLD_TIME is 5 of them.                                           *)
(***************************************************************************)
EXTENDS Integers, Sequences, FiniteSets, TLC

VARIABLES
    now,                \* the wall clock read by time.time()
    safety_override,    \* the SafetyOverride object (ControlEngine.safety_override)
    so_call,            \* the last direct call on the SafetyOverride, with its result
    so_hist,            \* the qualifying detections handed to it by direct calls
    mode,               \* ControlEngine.mode
    current_profile,    \* ControlEngine.current_profile (a profile id, or "None")
    current_gains,      \* ControlEngine.current_gains
    last_detections,    \* ControlEngine.last_detections
    last_recommendation,\* AutoController.last_recommendation
    ce_call,            \* the last call on the ControlEngine, with what it did
    user_gains,         \* the gains last set by the user or by a profile
    detector,           \* the SemanticDetective of the suppressor (its smoothing state)
    sup_call,           \* the last call on the SemanticSuppressor, with what it did
    worker,             \* where the AudioProcess and its two threads are
    stop_event,         \* AudioProcess.shutdown_event
    input_buffer,       \* the RingBuffer filled by the capture loop
    output_buffer,      \* the RingBuffer emptied by the playback loop
    gain_queue,         \* MixerController._gain_queue
    detection_queue,    \* MixerController._detection_queue
    smoother,           \* GainSmoother.current of the worker
    mic,                \* the number of frames the microphone has delivered
    speaker,            \* the frame last written to the audio device
    ap_call,            \* the last inference cycle, with what it did
    active_suppressions,\* the suppression map of the profile process_audio works with
    pa_call,            \* the last process_audio call, with what it did
    ring,               \* RingBuffer._buffer of a buffer used on its own
    rb_written,         \* every sample written to it, in write order
    rb_read,            \* every sample a read returned, in read order
    rb_fresh,           \* the samples written since it was last empty, while only written
    rb_call,            \* the last call on it, with its result
    gs,                 \* a GainSmoother used on its own (<<>> before it is made)
    gs_call,            \* the last call on it, with its result
    cbuf,                 \* a ConfidenceBuffer used on its own (<<>> before it is made)
    cb_seen,            \* per category, the confidences it was given, oldest first
    cb_call,            \* the last update call on it, with its result
    trig,                 \* a SchmittTrigger used on its own: self.active
    st_log,             \* the update calls on it, with their results, oldest first
    dc_call,            \* the last AdaptiveDutyCycle.get_interval call, with its result
    dthread,            \* a DetectionThread: where run() is, its stop event, its cycles
    ac_call,            \* the last AutoController.get_recommendation call, with its result
    callers,            \* the threads calling one ControlEngine: where each is in its call
    gq,                 \* set_gains and _drain_gains on the gain queue: where each is, what it holds
    ch,                 \* the set_gains calls under way, by the line they are at, and what the last sends did
    controller          \* a MixerController: its _process, where stop() is, whether stop() has returned

so_vars == <<now, safety_override, so_call, so_hist>>
ce_vars == <<mode, current_profile, current_gains, last_detections,
             last_recommendation, ce_call, user_gains>>
sup_vars == <<detector, sup_call>>
ap_vars == <<worker, stop_event, input_buffer, output_buffer, gain_queue,
            detection_queue, smoother, mic, speaker, ap_call>>
pa_vars == <<active_suppressions, pa_call>>
rb_vars == <<ring, rb_written, rb_read, rb_fresh, rb_call>>
gs_vars == <<gs, gs_call>>
cb_vars == <<cbuf, cb_seen, cb_call>>
st_vars == <<trig, st_log>>
dc_vars == <<dc_call>>
dt_vars == <<dthread>>
ac_vars == <<ac_call>>
cc_vars == <<callers>>
gq_vars == <<gq>>
ch_vars == <<ch>>
mc_vars == <<controller>>
new_vars == <<cc_vars, gq_vars, ch_vars, mc_vars>>
late_vars == <<cb_vars, st_vars, dc_vars, dt_vars, ac_vars, new_vars>>
more_vars == <<pa_vars, rb_vars, gs_vars, late_vars>>
other_vars == <<sup_vars, ap_vars, more_vars>>
vars == <<so_vars, ce_vars, other_vars>>

ONE == 10 * 10          \* 1.0 in hundredths
None == "None"          \* Python's None where a string is expected
NoTime == 0 - 1         \* Python's None where a time is expected

Min(a, b) == IF a <= b THEN a ELSE b
Max(a, b) == IF a >= b THEN a ELSE b

---------------------------------------------------------------------------
(* Bounds of the model.                                                    *)
MaxTime == 5            \* the clock stops advancing here

Buses == {"speech", "noise", "events"}

EmptyDict == [c \in {} |-> 0]     \* the dictionary {}

\* dict.get(key, 0.0) on a detections dictionary
DetGet(d, category) == IF category \in DOMAIN d THEN d[category] ELSE 0

---------------------------------------------------------------------------
(* SafetyOverride (profiles/safety_override.py)                            *)

NORMAL == "normal"
OVERRIDE_ACTIVE == "override_active"
OVERRIDE_FADING == "override_fading"

CRITICAL_CATEGORIES == <<"siren", "alarm">>
OVERRIDE_THRESHOLD == 70
DUCK_AMOUNT == 20
HOLD_TIME == 5

\* An Optional[SafetyAlert] is a sequence: <<>> is None, <<a>> is the alert a.
SafetyAlert(active, category, confidence, timestamp) ==
    [active |-> active, category |-> category,
     confidence |-> confidence, timestamp |-> timestamp]

\* SafetyOverride.__init__
SafetyOverrideInit ==
    [status |-> NORMAL, current_alert |-> <<>>,
     override_start_time |-> NoTime, last_critical_detection_time |-> NoTime]

\* the test of line 68
Qualifies_Strict(confidence) == confidence > OVERRIDE_THRESHOLD
Qualifies(confidence) == confidence >= OVERRIDE_THRESHOLD

\* the test of line 69: a later category replaces the alert only when higher
Replaces_OnTie(confidence, highest_confidence) == confidence >= highest_confidence
Replaces(confidence, highest_confidence) == confidence > highest_confidence

\* lines 78-79: the time of the last critical detection after one category
LastCritical_KeepFirst(hit, current_time, old) ==
    IF hit /\ old = NoTime THEN current_time ELSE old
LastCritical(hit, current_time, old) == IF hit THEN current_time ELSE old

\* lines 65-79: the loop over CRITICAL_CATEGORIES, from index i on
RECURSIVE CriticalLoop(_, _, _, _)
CriticalLoop(detections, current_time, i, acc) ==
    IF i > Len(CRITICAL_CATEGORIES) THEN acc
    ELSE LET category == CRITICAL_CATEGORIES[i]
             confidence == DetGet(detections, category)
             hit == Qualifies(confidence)
             better == hit /\ Replaces(confidence, acc.highest_confidence)
         IN CriticalLoop(detections, current_time, i + 1,
              [active_alert |->
                   IF better
                   THEN <<SafetyAlert(TRUE, category, confidence, current_time)>>
                   ELSE acc.active_alert,
               highest_confidence |->
                   IF better THEN confidence ELSE acc.highest_confidence,
               last_critical_detection_time |->
                   LastCritical(hit, current_time,
                                acc.last_critical_detection_time)])

\* line 86
InHold_Inclusive(time_since_last) == time_since_last <= HOLD_TIME
InHold(time_since_last) == time_since_last < HOLD_TIME

\* line 91: 1.0 - (time_since_last / HOLD_TIME)
FadeConfidence_Flat(time_since_last) == ONE
FadeConfidence(time_since_last) == ONE - ((ONE * time_since_last) \div HOLD_TIME)

\* lines 81-114 of SafetyOverride.check: what follows the loop, whose result
\* is loop
CheckAfterLoop(so, loop, time_since_last, current_time) ==
    IF loop.active_alert # <<>>
    THEN [so |-> [status |-> OVERRIDE_ACTIVE,
                  current_alert |-> loop.active_alert,
                  override_start_time |-> current_time,
                  last_critical_detection_time |->
                      loop.last_critical_detection_time],
          ret |-> loop.active_alert]
    ELSE IF loop.last_critical_detection_time = NoTime
    THEN [so |-> [so EXCEPT !.current_alert = <<>>], ret |-> <<>>]
    ELSE IF InHold(time_since_last)
    THEN [so |-> [so EXCEPT
                     !.status = OVERRIDE_FADING,
                     !.current_alert =
                         <<SafetyAlert(TRUE, None, FadeConfidence(time_since_last),
                                       current_time)>>],
          ret |-> <<SafetyAlert(TRUE, None, FadeConfidence(time_since_last),
                                current_time)>>]
    ELSE [so |-> [so EXCEPT
                     !.status = NORMAL,
                     !.current_alert = <<SafetyAlert(FALSE, None, 0, current_time)>>],
          ret |-> <<SafetyAlert(FALSE, None, 0, current_time)>>]

\* lines 60-79 of SafetyOverride.check: the loop, started on the object so
CheckLoop(so, detections, current_time) ==
    CriticalLoop(detections, current_time, 1,
                 [active_alert |-> <<>>, highest_confidence |-> 0,
                  last_critical_detection_time |->
                      so.last_critical_detection_time])

\* SafetyOverride.check: the object after the call, and the value returned
CheckWith(so, loop, current_time) ==
    CheckAfterLoop(so, loop, current_time - loop.last_critical_detection_time,
                   current_time)
Check(so, detections, current_time) ==
    CheckWith(so, CheckLoop(so, detections, current_time), current_time)

\* SafetyOverride.is_active
IsActive_AnyAlert(so) == so.current_alert # <<>>
IsActive(so) ==
    IF so.current_alert = <<>> THEN FALSE ELSE so.current_alert[1].active

\* lines 155-160: one bus other than "events" is ducked
Duck_Scaled(gain) == (gain * DUCK_AMOUNT) \div ONE
Duck(gain) == Min(gain, DUCK_AMOUNT)

\* lines 136-140: is some critical category at or above the threshold
CriticalSound(detections) ==
    \E i \in 1..Len(CRITICAL_CATEGORIES) :
        DetGet(detections, CRITICAL_CATEGORIES[i]) >= OVERRIDE_THRESHOLD

\* lines 147-162: the modified copy of the gains
OverrideGains(current_gains_in) ==
    [key \in DOMAIN current_gains_in |->
        IF key = "events" THEN ONE ELSE Duck(current_gains_in[key])]

\* lines 131-162 of SafetyOverride.apply_override: what follows the check,
\* whose result is c.  check() returning None makes "alert.active" raise
\* AttributeError: raised is TRUE and nothing is returned.
ApplyOverrideAfterCheck(c, current_gains_in, detections) ==
    IF c.ret = <<>>
    THEN [so |-> c.so, raised |-> TRUE, ret |-> current_gains_in]
    ELSE IF ~c.ret[1].active
    THEN [so |-> c.so, raised |-> FALSE, ret |-> current_gains_in]
    ELSE IF ~CriticalSound(detections)
    THEN [so |-> c.so, raised |-> FALSE, ret |-> current_gains_in]
    ELSE [so |-> c.so, raised |-> FALSE, ret |-> OverrideGains(current_gains_in)]

\* SafetyOverride.apply_override: the object after the call, and the gains
\* returned
ApplyOverride(so, current_gains_in, detections, current_time) ==
    ApplyOverrideAfterCheck(Check(so, detections, current_time),
                            current_gains_in, detections)

\* SafetyOverride.reset
Reset(so) == SafetyOverrideInit


---------------------------------------------------------------------------
(* The SafetyOverride used on its own, as the unit tests use it            *)

NoDetections == EmptyDict
NoGains == [b \in Buses |-> 0]

\* The detections handed to the SafetyOverride: each critical category below,
\* at and above the threshold, and the dictionary without critical category.
SODetections ==
    [siren : {0, 70, 85}, alarm : {60, 70, 85}] \cup {[speech |-> 80]}

\* The gains handed to apply_override: below and above DUCK_AMOUNT.
GainVectors ==
    { [speech |-> 50, noise |-> 10, events |-> 0],
      [speech |-> 10, noise |-> 50, events |-> ONE],
      [speech |-> ONE, noise |-> 0, events |-> 50] }

\* a detection that the state machine of the specification calls qualifying
QualifyingDetection(d) == DetGet(d, "siren") >= 70 \/ DetGet(d, "alarm") >= 70

\* the history after a detection d is handed over at the time t
Recorded(h, d, t) ==
    IF QualifyingDetection(d)
    THEN [last_qual |-> t, first_qual |-> IF h.n_qual = 0 THEN t ELSE h.first_qual,
          n_qual |-> Min(h.n_qual + 1, 2)]
    ELSE h
NoHistory == [last_qual |-> NoTime, first_qual |-> NoTime, n_qual |-> 0]

\* a call on the SafetyOverride: its arguments, the clock it read, what it
\* returned or whether it raised, and the status it found
SOCall(op, d, g, ret_alert, ret_gains, raised, prev) ==
    [op |-> op, detections |-> d, gains |-> g, t |-> now, ret_alert |-> ret_alert,
     ret_gains |-> ret_gains, raised |-> raised, prev_status |-> prev.status]

InitSO ==
    /\ now = 0
    /\ safety_override = SafetyOverrideInit
    /\ so_call = [SOCall("init", NoDetections, NoGains, <<>>, NoGains, FALSE,
                         SafetyOverrideInit) EXCEPT !.t = 0]
    /\ so_hist = NoHistory

\* time passes
Tick ==
    /\ now < MaxTime
    /\ now' = now + 1
    /\ UNCHANGED <<safety_override, so_call, so_hist, ce_vars, other_vars>>

\* safety_override.check(d)
SO_Check ==
    \E d \in SODetections :
        \E c \in {Check(safety_override, d, now)} :
           /\ safety_override' = c.so
           /\ so_call' = SOCall("check", d, NoGains, c.ret, NoGains, FALSE,
                                safety_override)
           /\ so_hist' = Recorded(so_hist, d, now)
           /\ UNCHANGED <<now, ce_vars, other_vars>>

\* safety_override.apply_override(g, d)
SO_ApplyOverride ==
    \E d \in SODetections, g \in GainVectors :
        \E a \in {ApplyOverride(safety_override, g, d, now)} :
           /\ safety_override' = a.so
           /\ so_call' = SOCall("apply_override", d, g, a.so.current_alert,
                                a.ret, a.raised, safety_override)
           /\ so_hist' = Recorded(so_hist, d, now)
           /\ UNCHANGED <<now, ce_vars, other_vars>>

\* safety_override.reset()
SO_Reset ==
    /\ safety_override' = Reset(safety_override)
    /\ so_call' = [SOCall("reset", NoDetections, NoGains, <<>>, NoGains, FALSE,
                          safety_override) EXCEPT !.t = 0]
    /\ so_hist' = NoHistory
    /\ UNCHANGED <<now, ce_vars, other_vars>>

---------------------------------------------------------------------------
(* ProfileManager (profiles/profile_manager.py): the built-in profiles,   *)
(* in the order of the dictionary, followed by one profile of the user.   *)

Trigger(category, threshold) == [category |-> category, threshold |-> threshold]

Gains(speech, noise, events) ==
    [b \in Buses |-> CASE b = "speech" -> speech
                       [] b = "noise" -> noise
                       [] b = "events" -> events]

Profiles == <<
    [id |-> "default-focus", gains |-> Gains(30, 0, 20),
     suppressions |-> {"typing", "traffic", "wind"},
     autoTriggers |-> <<>>, isDefault |-> TRUE],
    [id |-> "default-commute", gains |-> Gains(ONE, 10, 50),
     suppressions |-> {"traffic", "wind"},
     autoTriggers |-> <<Trigger("traffic", 60)>>, isDefault |-> FALSE],
    [id |-> "default-passthrough", gains |-> Gains(ONE, ONE, ONE),
     suppressions |-> {},
     autoTriggers |-> <<>>, isDefault |-> FALSE],
    [id |-> "user-street", gains |-> Gains(50, 10, ONE),
     suppressions |-> {"traffic"},
     autoTriggers |-> <<Trigger("traffic", 85), Trigger("alarm", 60)>>,
     isDefault |-> FALSE] >>

ProfileIds == {Profiles[i].id : i \in 1..Len(Profiles)}
ProfileById(id) == CHOOSE p \in {Profiles[i] : i \in 1..Len(Profiles)} : p.id = id

\* ProfileManager.apply_profile: the gain vector of a profile
ProfileGains(id) == ProfileById(id).gains

\* ControlEngine._get_default_profile
DefaultProfile ==
    IF \E i \in 1..Len(Profiles) : Profiles[i].isDefault
    THEN Profiles[CHOOSE i \in 1..Len(Profiles) :
                     /\ Profiles[i].isDefault
                     /\ \A j \in 1..(i - 1) : ~Profiles[j].isDefault].id
    ELSE IF Len(Profiles) > 0 THEN Profiles[1].id ELSE None

---------------------------------------------------------------------------
(* AutoController (profiles/auto_controller.py)                            *)

HYSTERESIS == 10

\* lines 77-86: the number of satisfied triggers among the first n
RECURSIVE MatchedTriggers(_, _, _)
MatchedTriggers(triggers, detections, n) ==
    IF n = 0 THEN 0
    ELSE MatchedTriggers(triggers, detections, n - 1)
         + (IF DetGet(detections, triggers[n].category) >= triggers[n].threshold
            THEN 1 ELSE 0)

\* AutoController._evaluate_profile_triggers
EvaluateProfileTriggers(id, detections) ==
    LET triggers == ProfileById(id).autoTriggers
        matched == MatchedTriggers(triggers, detections, Len(triggers))
    IN IF Len(triggers) = 0 THEN 0
       ELSE IF matched > 0 THEN Min(ONE, (ONE * matched) \div Len(triggers))
       ELSE 0

\* AutoController.evaluate: the loop over the first n profiles
EvaluateOne_LastWins(acc, profile, profile_confidence) ==
    IF Len(profile.autoTriggers) = 0 THEN acc
    ELSE IF profile_confidence >= acc.best_confidence
    THEN [best_profile |-> profile.id, best_confidence |-> profile_confidence]
    ELSE acc

EvaluateOne(acc, profile, profile_confidence) ==
    IF Len(profile.autoTriggers) = 0 THEN acc
    ELSE IF profile_confidence > acc.best_confidence
    THEN [best_profile |-> profile.id, best_confidence |-> profile_confidence]
    ELSE acc

RECURSIVE EvaluateLoop(_, _)
EvaluateLoop(detections, n) ==
    IF n = 0 THEN [best_profile |-> None, best_confidence |-> 0]
    ELSE EvaluateOne(EvaluateLoop(detections, n - 1), Profiles[n],
                     EvaluateProfileTriggers(Profiles[n].id, detections))

Evaluate(detections) == EvaluateLoop(detections, Len(Profiles)).best_profile

\* AutoController.get_recommendation (the reason string is left out)
Recommendation(profile, detections) ==
    IF profile = None THEN [profile |-> None, confidence |-> 0]
    ELSE [profile |-> profile,
          confidence |-> EvaluateProfileTriggers(profile, detections)]
GetRecommendation(detections) == Recommendation(Evaluate(detections), detections)

\* AutoController._estimate_detections_from_profile
EstimateDetectionsFromProfile(id) ==
    LET triggers == ProfileById(id).autoTriggers
        cats == {triggers[i].category : i \in 1..Len(triggers)}
    IN [c \in cats |->
          triggers[CHOOSE i \in 1..Len(triggers) :
                      /\ triggers[i].category = c
                      /\ \A j \in (i + 1)..Len(triggers) :
                            triggers[j].category # c].threshold]

\* AutoController.should_switch_profile; last_rec is <<>> or <<recommendation>>
ShouldSwitchProfile(new_profile, cur_profile, last_rec) ==
    IF cur_profile = None THEN TRUE
    ELSE IF new_profile = cur_profile THEN FALSE
    ELSE LET new_confidence ==
                 IF last_rec # <<>> /\ last_rec[1].profile # None
                 THEN last_rec[1].confidence ELSE 0
             current_confidence ==
                 EvaluateProfileTriggers(cur_profile,
                     IF last_rec # <<>>
                     THEN EstimateDetectionsFromProfile(cur_profile)
                     ELSE EmptyDict)
         IN (new_confidence - current_confidence) > HYSTERESIS


---------------------------------------------------------------------------
(* ControlEngine (profiles/control_engine.py)                              *)

AUTO == "auto"
MANUAL == "manual"

\* The detections reported to the engine.
Detections ==
    { [speech |-> 80], [siren |-> 85, traffic |-> 60], [traffic |-> 60],
      [alarm |-> 60] }

\* The gains the user sets, on both sides of DUCK_AMOUNT.
UserGains == { Gains(50, 10, 0) }

\* np.clip(x, 0.0, 1.0)
Clip(x) == Max(0, Min(x, ONE))

\* a call on the engine, on_detection_update or another: the calls it made on
\* its parts, in order, whether it raised, and whether the alert its first
\* check() returned was active
CECall(op, calls, raised, alert) ==
    [op |-> op, calls |-> calls, raised |-> raised,
     active |-> IF alert = <<>> THEN FALSE ELSE alert[1].active]

\* ControlEngine.__init__ with _load_saved_settings
InitCE ==
    /\ mode = MANUAL
    /\ current_profile = DefaultProfile
    /\ current_gains = (IF DefaultProfile = None THEN Gains(ONE, ONE, ONE)
                        ELSE ProfileGains(DefaultProfile))
    /\ user_gains = current_gains
    /\ last_detections = EmptyDict
    /\ last_recommendation = <<>>
    /\ ce_call = CECall("init", <<>>, FALSE, <<>>)

\* ControlEngine.set_mode(m)
SetMode ==
    \E m \in {AUTO, MANUAL} :
        /\ m # mode        \* a call with the current mode returns at once
        /\ mode' = m
        /\ IF m = AUTO /\ current_profile = None /\ DefaultProfile # None
           THEN /\ current_profile' = DefaultProfile
                /\ current_gains' = ProfileGains(DefaultProfile)
                /\ user_gains' = ProfileGains(DefaultProfile)
           ELSE UNCHANGED <<current_profile, current_gains, user_gains>>
        /\ ce_call' = CECall("other", <<>>, FALSE, <<>>)
        /\ UNCHANGED <<so_vars, other_vars, last_detections, last_recommendation>>

\* ControlEngine.apply_profile(profile)
ApplyProfile ==
    \E id \in ProfileIds :
        /\ current_profile' = id
        /\ current_gains' = ProfileGains(id)
        /\ user_gains' = ProfileGains(id)
        /\ ce_call' = CECall("other", <<>>, FALSE, <<>>)
        /\ UNCHANGED <<so_vars, other_vars, mode, last_detections, last_recommendation>>

\* ControlEngine.set_gains(speech, noise, events)
SetGains ==
    \E g \in UserGains :
        /\ mode' = MANUAL
        /\ current_gains' = [b \in Buses |-> Clip(g[b])]
        /\ user_gains' = [b \in Buses |-> Clip(g[b])]
        /\ ce_call' = CECall("other", <<>>, FALSE, <<>>)
        /\ UNCHANGED <<so_vars, other_vars, current_profile, last_detections,
                       last_recommendation>>

\* line 114: the test that ends the call when the override is active
OverrideBranch_Never(alert) == FALSE
OverrideBranch(alert) == alert.active

\* line 135: the test that lets the AutoController run
AutoBranch_Always(m) == TRUE
AutoBranch(m) == m = AUTO

\* lines 115-120: the gains made current while the override is active
MadeCurrent_Discarded(engine_gains, override_gains) == engine_gains
MadeCurrent(engine_gains, override_gains) == override_gains

\* what on_detection_update leaves when it changes nothing but the override
Unchanged(c) ==
    [so |-> c.so, t |-> now, gains |-> current_gains,
     profile |-> current_profile, rec |-> last_recommendation,
     user |-> user_gains, raised |-> FALSE, alert |-> c.ret,
     calls |-> <<"safety_override.check">>]

\* lines 115-132: the override is active; a is the result of apply_override
OverrideStep(same, a, t) ==
    [same EXCEPT
        !.so = a.so, !.t = t, !.raised = a.raised,
        !.gains = IF a.raised THEN current_gains
                  ELSE MadeCurrent(current_gains, a.ret),
        !.calls = <<"safety_override.check", "safety_override.apply_override">>
                  \o (IF a.raised THEN <<>> ELSE <<"_apply_gains">>)]

\* lines 136-156: Auto mode; rec is the recommendation, switch the answer of
\* should_switch_profile
AutoStep(same, rec, switch) ==
    [same EXCEPT
        !.rec = <<rec>>,
        !.profile = IF switch THEN rec.profile ELSE current_profile,
        !.gains = IF switch THEN ProfileGains(rec.profile) ELSE current_gains,
        !.user = IF switch THEN ProfileGains(rec.profile) ELSE user_gains,
        !.calls = <<"safety_override.check", "auto_controller.get_recommendation">>
                  \o (IF rec.profile # None
                      THEN <<"auto_controller.should_switch_profile">> ELSE <<>>)
                  \o (IF switch THEN <<"apply_profile">> ELSE <<>>)]

AutoStepFor(same, rec) ==
    AutoStep(same, rec,
             rec.profile # None
                 /\ ShouldSwitchProfile(rec.profile, current_profile, <<rec>>))

\* lines 114-160: what follows the check of line 112, whose result is c
AfterCheck(c, d, dt) ==
    IF c.ret = <<>>
    THEN \* alert is None: "alert.active" raises AttributeError
         [Unchanged(c) EXCEPT !.raised = TRUE]
    ELSE IF OverrideBranch(c.ret[1])
    THEN OverrideStep(Unchanged(c),
                      ApplyOverride(c.so, current_gains, d, now + dt), now + dt)
    ELSE IF AutoBranch(mode)
    THEN AutoStepFor(Unchanged(c), GetRecommendation(d))
    ELSE Unchanged(c)

\* ControlEngine.on_detection_update(d): everything the call changes.  The
\* clock is read once by check() at line 112 and once more, dt later, by the
\* check() inside apply_override at line 116.
DetectionUpdate(d, dt) == AfterCheck(Check(safety_override, d, now), d, dt)

OnDetectionUpdate ==
    \E d \in Detections, dt \in 0..1 :
        \E r \in {DetectionUpdate(d, dt)} :
           /\ r.t <= MaxTime
           /\ (dt = 1 => r.t = now + 1)
           /\ last_detections' = d
           /\ now' = r.t
           /\ safety_override' = r.so
           /\ current_gains' = r.gains
           /\ current_profile' = r.profile
           /\ last_recommendation' = r.rec
           /\ user_gains' = r.user
           /\ ce_call' = CECall("on_detection_update", r.calls, r.raised, r.alert)
           /\ UNCHANGED <<mode, so_call, so_hist, other_vars>>

---------------------------------------------------------------------------
(* SemanticDetective (training/models/semantic_detective.py)               *)

\* the dictionary d with d[key] = value
DictSet(d, key, value) ==
    [k \in DOMAIN d \cup {key} |-> IF k = key THEN value ELSE d[k]]

\* dict.get(key, default)
DictGet(d, key, default) == IF key \in DOMAIN d THEN d[key] ELSE default

\* the class map the detector loads: its categories in file order, and the
\* safety_override flag of each
CategoryOrder == <<"siren", "traffic", "typing">>
ClassMap ==
    [siren   |-> [safety_override |-> TRUE],
     traffic |-> [safety_override |-> FALSE],
     typing  |-> [safety_override |-> FALSE]]

\* ConfidenceBuffer defaults
CB_WINDOW_SIZE == 3
CB_THRESHOLD == 50

\* lines 54-56: the history of a category with one more observation
Observed_AtLeast(confidence, threshold) == confidence >= threshold
Observed(confidence, threshold) == confidence > threshold
Windowed(appended, window_size) ==
    IF Len(appended) > window_size THEN Tail(appended) ELSE appended

\* ConfidenceBuffer.update for one category: its history after the call
BufferHistoryWith(window_size, threshold, history, category, confidence) ==
    Windowed(Append(DictGet(history, category, <<>>),
                    Observed(confidence, threshold)),
             window_size)
BufferHistory(history, category, confidence) ==
    BufferHistoryWith(CB_WINDOW_SIZE, CB_THRESHOLD, history, category, confidence)

Hits(h) == Cardinality({i \in 1..Len(h) : h[i]})

\* ConfidenceBuffer.update: the loop over detections.items(), from item i on
RECURSIVE ConfidenceBufferUpdate(_, _, _, _)
ConfidenceBufferUpdate(history, stable, detections, i) ==
    IF i > Len(CategoryOrder) THEN [history |-> history, stable |-> stable]
    ELSE ConfidenceBufferUpdate(
             DictSet(history, CategoryOrder[i],
                     BufferHistory(history, CategoryOrder[i],
                                   detections[CategoryOrder[i]])),
             DictSet(stable, CategoryOrder[i],
                     Hits(BufferHistory(history, CategoryOrder[i],
                                        detections[CategoryOrder[i]])) >= 2),
             detections, i + 1)

\* SchmittTrigger defaults
ON_THRESHOLD == 70
OFF_THRESHOLD == 40

\* the same without the lower threshold: OFF as soon as the confidence is
\* not above the on threshold
SchmittUpdate_SingleThreshold(active, category, confidence) ==
    DictSet(active, category, confidence > ON_THRESHOLD)

\* SchmittTrigger.update: the dictionary self.active after the call (the value
\* returned is its entry for the category, False when there is none)
SchmittUpdate(active, category, confidence) ==
    IF DictGet(active, category, FALSE)
    THEN IF confidence < OFF_THRESHOLD
         THEN DictSet(active, category, FALSE) ELSE active
    ELSE IF confidence > ON_THRESHOLD
         THEN DictSet(active, category, TRUE) ELSE active

\* line 194 of classify: the comprehension over the categories, from item i on
RECURSIVE SchmittLoop(_, _, _, _)
SchmittLoop(active, states, smoothed, i) ==
    IF i > Len(CategoryOrder) THEN [active |-> active, states |-> states]
    ELSE SchmittLoop(
             SchmittUpdate(active, CategoryOrder[i], smoothed[CategoryOrder[i]]),
             DictSet(states, CategoryOrder[i],
                     DictGet(SchmittUpdate(active, CategoryOrder[i],
                                           smoothed[CategoryOrder[i]]),
                             CategoryOrder[i], FALSE)),
             smoothed, i + 1)

NoFlags == [c \in {} |-> FALSE]
NoHistories == [c \in {} |-> <<>>]

DetectorInit == [conf_buffer |-> NoHistories, schmitt |-> NoFlags]

\* SemanticDetective.classify with the median filter off (the default):
\* mapped is what the network and _map_to_categories give for the audio
ClassifyWith(det, mapped, cb, st) ==
    [detector |-> [conf_buffer |-> cb.history, schmitt |-> st.active],
     raw |-> mapped, smoothed |-> mapped,
     stable |-> cb.stable, states |-> st.states]
Classify(det, mapped) ==
    ClassifyWith(det, mapped,
                 ConfidenceBufferUpdate(det.conf_buffer, NoFlags, mapped, 1),
                 SchmittLoop(det.schmitt, NoFlags, mapped, 1))

\* SemanticDetective.check_safety_override
CheckSafetyOverride_Never(states) == FALSE
CheckSafetyOverride(states) ==
    \E category \in DOMAIN ClassMap :
        ClassMap[category].safety_override /\ DictGet(states, category, FALSE)

---------------------------------------------------------------------------
(* SemanticSuppressor (audio/semantic_suppressor.py)                       *)

\* the category mapping the suppressor loads: detection_threshold is <<>>
\* where the category has none, and negative in force mode
CategoryConfig(safety, targets, threshold) ==
    [safety_override |-> safety, waveformer_targets |-> targets,
     detection_threshold |-> threshold]
CategoryMap ==
    [traffic |-> CategoryConfig(FALSE, <<"car_horn", "engine">>, <<60>>),
     siren   |-> CategoryConfig(TRUE, <<"siren">>, <<0 - ONE>>),
     typing  |-> CategoryConfig(FALSE, <<"Computer_keyboard">>, <<>>),
     fan     |-> CategoryConfig(FALSE, <<"engine", "fan">>, <<0 - ONE>>),
     wind    |-> CategoryConfig(FALSE, <<>>, <<>>)]

Range(seq) == {seq[i] : i \in 1..Len(seq)}
Abs(x) == IF x < 0 THEN 0 - x ELSE x

\* np.max(np.abs(audio)) of a non-empty buffer
MaxAbs(audio) ==
    CHOOSE m \in {Abs(audio[i]) : i \in 1..Len(audio)} :
        \A i \in 1..Len(audio) : Abs(audio[i]) <= m

\* the same with the call's threshold whatever the category configures
Selected_CallThreshold(cat_config, confidence, detection_threshold) ==
    detection_threshold < 0 \/ confidence >= detection_threshold

\* lines 165-167: does the category pass its effective threshold
Selected(cat_config, confidence, detection_threshold) ==
    IF cat_config.detection_threshold # <<>>
    THEN cat_config.detection_threshold[1] < 0
             \/ confidence >= cat_config.detection_threshold[1]
    ELSE detection_threshold < 0 \/ confidence >= detection_threshold

\* the same without the test of lines 150-152
TargetsOf_CriticalToo(category, smoothed_scores, detection_threshold) ==
    IF category \notin DOMAIN CategoryMap THEN <<>>
    ELSE IF Len(CategoryMap[category].waveformer_targets) = 0 THEN <<>>
    ELSE IF Selected(CategoryMap[category],
                     DictGet(smoothed_scores, category, 0), detection_threshold)
    THEN CategoryMap[category].waveformer_targets
    ELSE <<>>

\* lines 143-179: what one requested category adds to targets_to_suppress
TargetsOf(category, smoothed_scores, detection_threshold) ==
    IF category \notin DOMAIN CategoryMap THEN <<>>
    ELSE IF CategoryMap[category].safety_override THEN <<>>
    ELSE IF Len(CategoryMap[category].waveformer_targets) = 0 THEN <<>>
    ELSE IF Selected(CategoryMap[category],
                     DictGet(smoothed_scores, category, 0), detection_threshold)
    THEN CategoryMap[category].waveformer_targets
    ELSE <<>>

\* lines 141-179: the loop over suppress_categories, from item i on
RECURSIVE TargetsLoop(_, _, _, _, _)
TargetsLoop(suppress_categories, smoothed_scores, detection_threshold, i, targets_to_suppress) ==
    IF i > Len(suppress_categories) THEN targets_to_suppress
    ELSE TargetsLoop(suppress_categories, smoothed_scores, detection_threshold,
                     i + 1,
                     targets_to_suppress
                         \o TargetsOf(suppress_categories[i], smoothed_scores,
                                      detection_threshold))

\* the same without scaling the separator's output back by the peak
Clean_Unscaled(audio, unwanted_norm, max_val, aggressiveness) ==
    [i \in 1..Len(audio) |->
        IF i <= Min(Len(audio), Len(unwanted_norm))
        THEN audio[i] - (unwanted_norm[i] * aggressiveness) \div ONE
        ELSE audio[i]]

\* lines 214-241: the separator's output scaled back by the peak and
\* subtracted from the first min_len samples
Clean(audio, unwanted_norm, max_val, aggressiveness) ==
    [i \in 1..Len(audio) |->
        IF i <= Min(Len(audio), Len(unwanted_norm))
        THEN audio[i] - (((unwanted_norm[i] * max_val) \div ONE) * aggressiveness)
                            \div ONE
        ELSE audio[i]]

\* what one call of suppress did: the detector it leaves, whether it
\* classified and the states it got, the buffer returned, the number of
\* separator invocations, and targets_to_suppress
Outcome(det, states, ret, separated, targets) ==
    [detector |-> det, states |-> states, ret |-> ret,
     separated |-> separated, targets |-> targets]

\* lines 181-241: what follows the target loop
AfterTargets(d, audio, targets, aggressiveness, unwanted_norm) ==
    IF Len(targets) = 0
    THEN Outcome(d.detector, <<d.states>>, audio, 0, <<>>)
    ELSE IF MaxAbs(audio) = 0       \* max_val < 1e-8: silence
    THEN Outcome(d.detector, <<d.states>>, audio, 0, targets)
    ELSE Outcome(d.detector, <<d.states>>,
                 Clean(audio, unwanted_norm, MaxAbs(audio), aggressiveness),
                 1, targets)

\* lines 135-183: what follows classify, whose result is d
AfterClassify(d, audio, suppress_categories, detection_threshold, safety_check, aggressiveness, unwanted_norm) ==
    IF safety_check /\ CheckSafetyOverride(d.states)
    THEN Outcome(d.detector, <<d.states>>, audio, 0, <<>>)
    ELSE AfterTargets(d, audio,
                      TargetsLoop(suppress_categories, d.smoothed,
                                  detection_threshold, 1, <<>>),
                      aggressiveness, unwanted_norm)

\* suppress with the classifier run before the empty list is looked at
Suppress_ClassifyFirst(det, audio, suppress_categories, detection_threshold, safety_check, aggressiveness, mapped, unwanted_norm) ==
    IF Len(suppress_categories) = 0
    THEN Outcome(Classify(det, mapped).detector, <<>>, audio, 0, <<>>)
    ELSE AfterClassify(Classify(det, mapped), audio, suppress_categories,
                       detection_threshold, safety_check, aggressiveness,
                       unwanted_norm)

\* SemanticSuppressor.suppress: mapped is what the classifier gives for the
\* audio, unwanted_norm what the separator gives for the normalised audio
Suppress(det, audio, suppress_categories, detection_threshold, safety_check, aggressiveness, mapped, unwanted_norm) ==
    IF Len(suppress_categories) = 0
    THEN Outcome(det, <<>>, audio, 0, <<>>)
    ELSE AfterClassify(Classify(det, mapped), audio, suppress_categories,
                       detection_threshold, safety_check, aggressiveness,
                       unwanted_norm)

---------------------------------------------------------------------------
(* The suppressor in use: calls with inputs from small sets.               *)

\* audio buffers (samples in hundredths): silence and a signal
Audios == { <<0, 0>>, <<40, 0 - 20>> }

\* what the classifier may report: siren below the off threshold, between the
\* two thresholds, above the on threshold; traffic and typing absent or present
Scores == [siren : {30, 55, 80}, traffic : {30, 80}, typing : {30, 80}]
Quiet == [siren |-> 30, traffic |-> 30, typing |-> 30]
\* the same in a room where nobody types
ScoresNoTyping == {mapped \in Scores : mapped.typing = 30}

\* what the separator may return for a normalised buffer: nothing, the whole
\* buffer, or a shorter buffer
SeparatorOutputs == { <<0, 0>>, <<ONE, 0 - 50>>, <<ONE>> }

\* the separator returning more samples than it was given
LongerOutputs == { <<0 - 50, ONE, 30>> }

Requests ==
    { <<>>, <<"traffic">>, <<"siren", "traffic">>, <<"wind", "typing", "horn">> }
\* requests that mix every kind of category
MixedRequests ==
    { <<"typing">>, <<"siren", "traffic">>,
      <<"horn", "wind", "typing", "traffic">>, <<"fan", "typing">> }

DEFAULT_DETECTION_THRESHOLD == 50
DEFAULT_AGGRESSIVENESS == ONE

\* detection_threshold as callers pass it: the default, and force mode
DetectionThresholds == {DEFAULT_DETECTION_THRESHOLD, 0 - ONE}
\* aggressiveness as callers pass it: the default, and over-subtraction
Aggressivenesses == {DEFAULT_AGGRESSIVENESS, 2 * ONE}

\* the call, what it was given (smoothed stands for the classifier's scores of
\* the audio and unwanted_norm for the separator's output, where they ran)
\* and what it did
SupCall(op, audio, categories, safety_check, detection_threshold, aggressiveness, smoothed, unwanted_norm, r) ==
    [op |-> op, audio |-> audio, categories |-> categories,
     safety_check |-> safety_check, detection_threshold |-> detection_threshold,
     aggressiveness |-> aggressiveness, smoothed |-> smoothed,
     unwanted_norm |-> unwanted_norm, states |-> r.states, ret |-> r.ret,
     separated |-> r.separated, targets |-> r.targets]

InitSup ==
    /\ detector = DetectorInit
    /\ sup_call = SupCall("none", <<0, 0>>, <<>>, FALSE,
                          DEFAULT_DETECTION_THRESHOLD, DEFAULT_AGGRESSIVENESS,
                          Quiet, <<0, 0>>,
                          Outcome(DetectorInit, <<>>, <<0, 0>>, 0, <<>>))

\* suppressor.suppress(audio, rate, categories, safety_check=...) on a
\* suppressor in use
SUP_Suppress ==
    \E audio \in Audios, categories \in Requests, safety_check \in BOOLEAN :
      \* the outputs of models that are not run are not inputs
      \E mapped \in (IF categories = <<>> THEN {Quiet} ELSE ScoresNoTyping) :
        \E dry \in {Suppress(detector, audio, categories,
                             DEFAULT_DETECTION_THRESHOLD, safety_check,
                             DEFAULT_AGGRESSIVENESS, mapped, <<0, 0>>)} :
          \E unwanted_norm \in (IF dry.separated = 0 THEN {<<0, 0>>}
                                ELSE SeparatorOutputs) :
            \E r \in {IF unwanted_norm = <<0, 0>> THEN dry
                      ELSE Suppress(detector, audio, categories,
                                    DEFAULT_DETECTION_THRESHOLD, safety_check,
                                    DEFAULT_AGGRESSIVENESS, mapped,
                                    unwanted_norm)} :
               /\ detector' = r.detector
               /\ sup_call' = SupCall("suppress", audio, categories, safety_check,
                                      DEFAULT_DETECTION_THRESHOLD,
                                      DEFAULT_AGGRESSIVENESS, mapped,
                                      unwanted_norm, r)
               /\ UNCHANGED <<so_vars, ce_vars, ap_vars, more_vars>>

\* SemanticSuppressor(...).suppress(audio, rate, categories,
\* detection_threshold, safety_check, aggressiveness): the first call on a
\* new suppressor; the outputs of models that are not run, and the arguments
\* that are not looked at, are not inputs
SUP_SuppressNew ==
    \E audio \in Audios, categories \in MixedRequests,
       safety_check \in BOOLEAN, mapped \in Scores,
       detection_threshold \in DetectionThresholds :
        \E dry \in {Suppress(DetectorInit, audio, categories, detection_threshold,
                             safety_check, DEFAULT_AGGRESSIVENESS, mapped,
                             <<0, 0>>)} :
          \E unwanted_norm \in (IF dry.separated = 0 THEN {<<0, 0>>}
                                ELSE SeparatorOutputs \cup LongerOutputs),
             aggressiveness \in (IF dry.separated = 0
                                 THEN {DEFAULT_AGGRESSIVENESS}
                                 ELSE Aggressivenesses) :
            \E r \in {Suppress(DetectorInit, audio, categories,
                               detection_threshold, safety_check, aggressiveness,
                               mapped, unwanted_norm)} :
               /\ detector' = r.detector
               /\ sup_call' = SupCall("suppress", audio, categories, safety_check,
                                      detection_threshold, aggressiveness,
                                      mapped, unwanted_norm, r)
               /\ UNCHANGED <<so_vars, ce_vars, ap_vars, more_vars>>

\* suppressor.detect_categories(audio, rate): classification alone
SUP_DetectCategories ==
    \E audio \in Audios, mapped \in ScoresNoTyping :
        \E d \in {Classify(detector, mapped)} :
           /\ detector' = d.detector
           /\ sup_call' = SupCall("detect_categories", audio, <<>>, FALSE,
                                  DEFAULT_DETECTION_THRESHOLD,
                                  DEFAULT_AGGRESSIVENESS, mapped, <<0, 0>>,
                                  Outcome(d.detector, <<d.states>>, audio, 0, <<>>))
           /\ UNCHANGED <<so_vars, ce_vars, ap_vars, more_vars>>

---------------------------------------------------------------------------
(* RingBuffer (audio/ring_buffer.py) and GainSmoother                      *)
(* (audio/gain_smoother.py)                                                 *)

\* deque(maxlen=capacity).extend(samples), under the lock: the oldest samples
\* fall out on the left
RingWrite_DropNewest(buffer, data, capacity) ==
    IF Len(buffer) + Len(data) > capacity
    THEN SubSeq(buffer \o data, 1, capacity)
    ELSE buffer \o data
RingWrite(buffer, data, capacity) ==
    IF Len(buffer) + Len(data) > capacity
    THEN SubSeq(buffer \o data, Len(buffer) + Len(data) - capacity + 1,
                Len(buffer) + Len(data))
    ELSE buffer \o data

\* RingBuffer.read(num_samples), under the lock: the buffer after the call and
\* the value returned (<<>> for None)
RingRead_Partial(buffer, num_samples) ==
    IF Len(buffer) < num_samples
    THEN [buffer |-> <<>>, out |-> <<buffer>>]
    ELSE [buffer |-> SubSeq(buffer, num_samples + 1, Len(buffer)),
          out |-> <<SubSeq(buffer, 1, num_samples)>>]
RingRead_Peek(buffer, num_samples) ==
    IF Len(buffer) < num_samples
    THEN [buffer |-> buffer, out |-> <<>>]
    ELSE [buffer |-> buffer, out |-> <<SubSeq(buffer, 1, num_samples)>>]
RingRead_Reversed(buffer, num_samples) ==
    IF Len(buffer) < num_samples
    THEN [buffer |-> buffer, out |-> <<>>]
    ELSE [buffer |-> SubSeq(buffer, num_samples + 1, Len(buffer)),
          out |-> <<[i \in 1..num_samples |-> buffer[num_samples + 1 - i]]>>]
RingRead(buffer, num_samples) ==
    IF Len(buffer) < num_samples
    THEN [buffer |-> buffer, out |-> <<>>]
    ELSE [buffer |-> SubSeq(buffer, num_samples + 1, Len(buffer)),
          out |-> <<SubSeq(buffer, 1, num_samples)>>]

\* RingBuffer.clear, under the lock
RingClear(buffer) == <<>>

\* RingBuffer.available, under the lock
RingAvailable(buffer) == Len(buffer)

\* GainSmoother defaults
SMOOTHING == 90
NOISE_FLOOR == 10
EVENTS_INITIAL == 50

\* line 21: self.current of a new smoother; unit is the number of model units
\* in one hundredth, noise_floor is in model units
InitialCurrent(noise_floor, unit) ==
    Gains(ONE * unit, noise_floor, EVENTS_INITIAL * unit)
SmootherInit == InitialCurrent(NOISE_FLOOR, 1)

\* line 27: the exponential blend; smoothing is in hundredths
Blend_Swapped(smoothing, prev, target) ==
    ((ONE - smoothing) * prev + smoothing * target) \div ONE
Blend(smoothing, prev, target) ==
    (smoothing * prev + (ONE - smoothing) * target) \div ONE

\* lines 28-29: the floor under the "noise" key
Clamp_None(key, smoothed, noise_floor) == smoothed
Clamp(key, smoothed, noise_floor) ==
    IF key = "noise" THEN Max(smoothed, noise_floor) ELSE smoothed

\* lines 26-30 of GainSmoother.smooth for one key
SmoothValue(smoothing, noise_floor, key, prev, target) ==
    Clamp(key, Blend(smoothing, prev, target), noise_floor)

\* GainSmoother.smooth on a smoother with the given configuration:
\* self.current after the call, which is also returned
SmoothWith(smoothing, noise_floor, current, target_gains) ==
    [key \in DOMAIN current \cup DOMAIN target_gains |->
        IF key \in DOMAIN target_gains
        THEN SmoothValue(smoothing, noise_floor, key, DetGet(current, key),
                         target_gains[key])
        ELSE current[key]]

\* the same with the default configuration, in hundredths
SmoothKey(key, prev, target) ==
    SmoothValue(SMOOTHING, NOISE_FLOOR, key, prev, target)
Smooth(current, target_gains) ==
    SmoothWith(SMOOTHING, NOISE_FLOOR, current, target_gains)

---------------------------------------------------------------------------
(* AudioProcess (audio/audio_process.py) and MixerController               *)
(* (audio/mixer_controller.py)                                              *)

\* the stream configuration: samples per frame, and the ring capacity the
\* worker derives from it
FrameSamples == 2
Capacity == 2 * FrameSamples

\* the number of frames the microphone delivers
MaxFrames == 2

GAIN_QUEUE_MAXSIZE == 8
DETECTION_QUEUE_MAXSIZE == 16

\* frame number k of the microphone
MicFrame(k) == [i \in 1..FrameSamples |-> 10 * (FrameSamples * (k - 1) + i)]
Silence == [i \in 1..FrameSamples |-> 0]

\* what separator.separate may do with a chunk: return the whole chunk,
\* return silence, or raise
SeparatorResults == {"all", "nothing", "raise"}
Separated(chunk, result) ==
    IF result = "all" THEN chunk ELSE [i \in 1..Len(chunk) |-> 0]

\* AudioProcess._drain_gains: the queue and the smoother after the call; the
\* smoothed gains are smoother.current
DrainGains(queue, current) ==
    [queue |-> <<>>,
     current |-> Smooth(current,
                        IF Len(queue) = 0 THEN current ELSE queue[Len(queue)])]

\* lines 150-154 of _inference_loop
Mixed(chunk, separated, gains) ==
    [i \in 1..Len(chunk) |->
        (separated[i] * DetGet(gains, "speech")) \div ONE
            + ((chunk[i] - separated[i]) * DetGet(gains, "noise")) \div ONE]

\* line 160: the RMS level of a chunk, rounded down
SumSquares(chunk) ==
    LET sq[i \in 0..Len(chunk)] ==
            IF i = 0 THEN 0 ELSE sq[i - 1] + chunk[i] * chunk[i]
    IN sq[Len(chunk)]
Rms(chunk) ==
    CHOOSE r \in 0..ONE : r * r <= SumSquares(chunk) \div Len(chunk)
                          /\ (r + 1) * (r + 1) > SumSquares(chunk) \div Len(chunk)

\* queue.put_nowait on a bounded queue: a full queue drops the message
PutNowait_Unbounded(queue, message, maxsize) == Append(queue, message)
PutNowait(queue, message, maxsize) ==
    IF Len(queue) >= maxsize THEN queue ELSE Append(queue, message)

APCall(chunk, raised, mixed) == [chunk |-> chunk, raised |-> raised, mixed |-> mixed]

WorkerState(main, capture, playback) ==
    [main |-> main, capture |-> capture, playback |-> playback]

InitAP ==
    /\ worker = WorkerState("new", "new", "new")
    /\ stop_event = FALSE
    /\ input_buffer = <<>>
    /\ output_buffer = <<>>
    /\ gain_queue = <<>>
    /\ detection_queue = <<>>
    /\ smoother = SmootherInit
    /\ mic = 0
    /\ speaker = <<>>
    /\ ap_call = APCall(<<>>, FALSE, <<>>)

\* lines 64-90 of run: the device, the buffers, the smoother, the two threads,
\* and into the inference loop
AP_Run ==
    /\ worker.main = "new"
    /\ worker' = WorkerState("inference", "running", "running")
    /\ UNCHANGED <<stop_event, input_buffer, output_buffer, gain_queue,
                   detection_queue, smoother, mic, speaker, ap_call>>
    /\ UNCHANGED <<so_vars, ce_vars, sup_vars, more_vars>>

\* AudioProcess.stop
AP_Stop ==
    /\ ~stop_event
    /\ stop_event' = TRUE
    /\ UNCHANGED <<worker, input_buffer, output_buffer, gain_queue,
                   detection_queue, smoother, mic, speaker, ap_call>>
    /\ UNCHANGED <<so_vars, ce_vars, sup_vars, more_vars>>

\* one turn of _capture_loop
AP_Capture ==
    /\ worker.capture = "running"
    /\ IF stop_event
       THEN /\ worker' = [worker EXCEPT !.capture = "returned"]
            /\ UNCHANGED <<input_buffer, mic>>
       ELSE /\ mic < MaxFrames
            /\ mic' = mic + 1
            /\ input_buffer' = RingWrite(input_buffer, MicFrame(mic + 1), Capacity)
            /\ UNCHANGED worker
    /\ UNCHANGED <<stop_event, output_buffer, gain_queue, detection_queue,
                   smoother, speaker, ap_call>>
    /\ UNCHANGED <<so_vars, ce_vars, sup_vars, more_vars>>

\* one turn of _playback_loop
AP_Playback ==
    /\ worker.playback = "running"
    /\ IF stop_event
       THEN /\ worker' = [worker EXCEPT !.playback = "returned"]
            /\ UNCHANGED <<output_buffer, speaker>>
       ELSE \E r \in {RingRead(output_buffer, FrameSamples)} :
                /\ output_buffer' = r.buffer
                /\ speaker' = IF r.out = <<>> THEN Silence ELSE r.out[1]
                /\ UNCHANGED worker
    /\ UNCHANGED <<stop_event, input_buffer, gain_queue, detection_queue,
                   smoother, mic, ap_call>>
    /\ UNCHANGED <<so_vars, ce_vars, sup_vars, more_vars>>

\* lines 144-164 of _inference_loop: the cycle has a chunk, and the separator
\* returns
InferenceStep(g, chunk, result) ==
    /\ output_buffer' = RingWrite(output_buffer,
                                  Mixed(chunk, Separated(chunk, result), g.current),
                                  Capacity)
    /\ detection_queue' = PutNowait(detection_queue,
                                    [rms |-> Rms(chunk), gains |-> g.current],
                                    DETECTION_QUEUE_MAXSIZE)
    /\ ap_call' = APCall(<<chunk>>, FALSE,
                         <<Mixed(chunk, Separated(chunk, result), g.current)>>)
    /\ UNCHANGED worker

\* line 147 raises: nothing in _inference_loop or in run catches it, so the
\* exception leaves run() and the process ends
InferenceRaise(chunk) ==
    /\ worker' = [worker EXCEPT !.main = "raised"]
    /\ ap_call' = APCall(<<chunk>>, TRUE, <<>>)
    /\ UNCHANGED <<output_buffer, detection_queue>>

\* one turn of _inference_loop with the stop event clear (lines 134-164)
AP_Inference ==
    /\ worker.main = "inference"
    /\ ~stop_event
    /\ \E g \in {DrainGains(gain_queue, smoother)},
          r \in {RingRead(input_buffer, FrameSamples)} :
          /\ gain_queue' = g.queue
          /\ smoother' = g.current
          /\ input_buffer' = r.buffer
          /\ IF r.out = <<>>
             THEN \* underrun: sleep and continue
                  /\ ap_call' = APCall(<<>>, FALSE, <<>>)
                  /\ UNCHANGED <<worker, output_buffer, detection_queue>>
             ELSE \E result \in SeparatorResults :
                      IF result = "raise" THEN InferenceRaise(r.out[1])
                      ELSE InferenceStep(g, r.out[1], result)
    /\ UNCHANGED <<stop_event, mic, speaker>>
    /\ UNCHANGED <<so_vars, ce_vars, sup_vars, more_vars>>

\* line 134 finds the stop event set: the loop ends and run goes on to join
\* the threads
AP_InferenceExit ==
    /\ worker.main = "inference"
    /\ stop_event
    /\ worker' = [worker EXCEPT !.main = "joining"]
    /\ UNCHANGED <<stop_event, input_buffer, output_buffer, gain_queue,
                   detection_queue, smoother, mic, speaker, ap_call>>
    /\ UNCHANGED <<so_vars, ce_vars, sup_vars, more_vars>>

\* lines 98-100 of run: both joins give up after their timeout at the latest,
\* then the device is closed
AP_Close ==
    /\ worker.main = "joining"
    /\ worker' = [worker EXCEPT !.main = "closed"]
    /\ UNCHANGED <<stop_event, input_buffer, output_buffer, gain_queue,
                   detection_queue, smoother, mic, speaker, ap_call>>
    /\ UNCHANGED <<so_vars, ce_vars, sup_vars, more_vars>>

\* run() has returned or raised: the process exits, and its daemon threads
\* (line 80, line 85) end with it
AP_Exit ==
    /\ worker.main \in {"closed", "raised"}
    /\ worker' = WorkerState("exited",
                             IF worker.capture = "running" THEN "killed"
                             ELSE worker.capture,
                             IF worker.playback = "running" THEN "killed"
                             ELSE worker.playback)
    /\ UNCHANGED <<stop_event, input_buffer, output_buffer, gain_queue,
                   detection_queue, smoother, mic, speaker, ap_call>>
    /\ UNCHANGED <<so_vars, ce_vars, sup_vars, more_vars>>

\* the gain updates the user interface sends
GainUpdates == { Gains(ONE, 0, 50), Gains(ONE, NOISE_FLOOR, 50) }

\* MixerController.set_gains: empty the queue, then put the update
MC_SetGains ==
    \E g \in GainUpdates :
        /\ gain_queue' = PutNowait(<<>>, g, GAIN_QUEUE_MAXSIZE)
        /\ UNCHANGED <<worker, stop_event, input_buffer, output_buffer,
                       detection_queue, smoother, mic, speaker, ap_call>>
        /\ UNCHANGED <<so_vars, ce_vars, sup_vars, more_vars>>

\* MixerController.get_levels: take the oldest level message if there is one
MC_GetLevels ==
    /\ Len(detection_queue) > 0
    /\ detection_queue' = Tail(detection_queue)
    /\ UNCHANGED <<worker, stop_event, input_buffer, output_buffer,
                   gain_queue, smoother, mic, speaker, ap_call>>
    /\ UNCHANGED <<so_vars, ce_vars, sup_vars, more_vars>>

\* the frame of the controller's lifecycle calls
mc_frame == <<input_buffer, output_buffer, gain_queue, detection_queue, smoother,
              mic, speaker, ap_call, so_vars, ce_vars, sup_vars, pa_vars, rb_vars,
              gs_vars, cb_vars, st_vars, dc_vars, dt_vars, ac_vars, cc_vars,
              gq_vars, ch_vars>>

ControllerState(process, pc, stopped) ==
    [process |-> process, pc |-> pc, stopped |-> stopped]

\* MixerController.__init__: no process yet
InitMC == controller = ControllerState("none", "idle", FALSE)

\* Process.is_alive of the worker, once started
IsAlive == worker.main \notin {"exited", "terminated"}

\* MixerController.is_running
IsRunning == controller.process = "started" /\ IsAlive

\* MixerController.start: make the worker and start it
MC_Start ==
    /\ controller.pc = "idle"
    /\ controller.process = "none"
    /\ worker.main = "new"
    /\ controller' = ControllerState("started", "idle", FALSE)
    /\ UNCHANGED <<worker, stop_event, mc_frame>>

\* lines 52-57 of MixerController.stop: nothing to stop, or set the shutdown
\* event and go on to join the worker
MC_Stop ==
    /\ controller.pc = "idle"
    /\ IF controller.process = "none"
       THEN /\ controller' = ControllerState("none", "idle", TRUE)
            /\ UNCHANGED stop_event
       ELSE IF IsAlive
            THEN /\ stop_event' = TRUE
                 /\ controller' = ControllerState("started", "join", FALSE)
            ELSE /\ controller' = ControllerState("none", "idle", TRUE)
                 /\ UNCHANGED stop_event
    /\ UNCHANGED <<worker, mc_frame>>

\* lines 57-61 of MixerController.stop: the join returns, because the worker
\* has exited or because the timeout has passed; a worker still alive is
\* terminated, and its threads end with it
MC_StopJoined ==
    /\ controller.pc = "join"
    /\ worker' = IF IsAlive
                 THEN WorkerState("terminated",
                                  IF worker.capture = "running" THEN "killed"
                                  ELSE worker.capture,
                                  IF worker.playback = "running" THEN "killed"
                                  ELSE worker.playback)
                 ELSE worker
    /\ controller' = ControllerState("none", "idle", TRUE)
    /\ UNCHANGED <<stop_event, mc_frame>>

---------------------------------------------------------------------------
(* ControlEngine: the audio path.  process_audio_optimization is           *)
(* control_engine.py lines 339-363; process_audio, which the tests and the *)
(* demo scripts call, follows section 4.8 of the specification.            *)

\* the suppression maps a profile may carry (category -> flag): none, every
\* flag false, every flag true, mixed
SuppressionMaps ==
    { [c \in {} |-> FALSE],
      [typing |-> FALSE, wind |-> FALSE],
      [typing |-> TRUE, wind |-> TRUE],
      [typing |-> TRUE, wind |-> FALSE, traffic |-> TRUE] }

\* the categories of a suppression map whose flag is true
Enabled_AllKeys(suppressions) == DOMAIN suppressions
Enabled(suppressions) == {c \in DOMAIN suppressions : suppressions[c]}

\* what the suppressor may do with a call: return a changed buffer, return
\* the buffer as it is, or raise
SuppressorResults == {"changed", "same", "raise"}
Suppressed(audio, result) ==
    IF result = "changed" THEN [i \in 1..Len(audio) |-> (audio[i] * 90) \div ONE]
    ELSE audio

\* what process_audio returns when the suppressor raised
OnSuppressorError_Silence(audio) == [i \in 1..Len(audio) |-> 0]
OnSuppressorError(audio) == audio

\* one call of the suppressor as process_audio makes it
SuppressCall(categories) == [categories |-> categories, safety_check |-> TRUE]

\* what one call of process_audio or process_audio_optimization did, on which
\* suppression map: ret is <<>> for None
PACall(op, suppressions, audio, ret, suppress_calls, raised) ==
    [op |-> op, suppressions |-> suppressions, audio |-> audio, ret |-> ret,
     suppress_calls |-> suppress_calls, suppressor_raised |-> raised]

\* process_audio(audio, sample_rate) on the snapshot of the suppression map
ProcessAudio(suppressions, audio, result) ==
    IF Enabled(suppressions) = {}
    THEN PACall("process_audio", suppressions, audio, <<audio>>, <<>>, FALSE)
    ELSE IF result = "raise"
    THEN PACall("process_audio", suppressions, audio, <<OnSuppressorError(audio)>>,
                <<SuppressCall(Enabled(suppressions))>>, TRUE)
    ELSE PACall("process_audio", suppressions, audio, <<Suppressed(audio, result)>>,
                <<SuppressCall(Enabled(suppressions))>>, FALSE)

\* ControlEngine.is_silent with the default threshold 0.01
SumAbs(audio) ==
    LET s[i \in 0..Len(audio)] == IF i = 0 THEN 0 ELSE s[i - 1] + Abs(audio[i])
    IN s[Len(audio)]
IsSilent(audio_buffer) == SumAbs(audio_buffer) < 1 * Len(audio_buffer)

\* ControlEngine.should_bypass_model
PASSTHROUGH_THRESHOLD == 99
ShouldBypassModel(gains) ==
    /\ DetGet(gains, "speech") > PASSTHROUGH_THRESHOLD
    /\ DetGet(gains, "noise") > PASSTHROUGH_THRESHOLD
    /\ DetGet(gains, "events") > PASSTHROUGH_THRESHOLD

\* ControlEngine.process_audio_optimization
ProcessAudioOptimization(suppressions, gains, audio_buffer) ==
    IF IsSilent(audio_buffer)
    THEN PACall("process_audio_optimization", suppressions, audio_buffer,
                <<[i \in 1..Len(audio_buffer) |-> 0]>>, <<>>, FALSE)
    ELSE IF ShouldBypassModel(gains)
    THEN PACall("process_audio_optimization", suppressions, audio_buffer, <<audio_buffer>>,
                <<>>, FALSE)
    ELSE PACall("process_audio_optimization", suppressions, audio_buffer, <<>>, <<>>, FALSE)

InitPA ==
    /\ active_suppressions = [c \in {} |-> FALSE]
    /\ pa_call = PACall("none", [c \in {} |-> FALSE], <<0, 0>>, <<>>, <<>>, FALSE)

\* set_profile(profile): the profile whose suppression map is used from now on
PA_SetProfile ==
    \E suppressions \in SuppressionMaps :
        /\ active_suppressions' = suppressions
        /\ UNCHANGED pa_call
        /\ UNCHANGED <<so_vars, ce_vars, sup_vars, ap_vars, rb_vars, gs_vars, late_vars>>

PA_ProcessAudio ==
    \E audio \in Audios, result \in SuppressorResults :
        \E r \in {ProcessAudio(active_suppressions, audio, result)} :
           \* what a suppressor that was not called would have done is no input
           /\ r.suppress_calls = <<>> => result = "same"
           /\ pa_call' = r
           /\ UNCHANGED active_suppressions
           /\ UNCHANGED <<so_vars, ce_vars, sup_vars, ap_vars, rb_vars, gs_vars, late_vars>>

PA_ProcessAudioOptimization ==
    \E audio_buffer \in Audios :
        /\ pa_call' = ProcessAudioOptimization(active_suppressions, current_gains, audio_buffer)
        /\ UNCHANGED active_suppressions
        /\ UNCHANGED <<so_vars, ce_vars, sup_vars, ap_vars, rb_vars, gs_vars, late_vars>>

---------------------------------------------------------------------------
(* A RingBuffer in use on its own: a writer and a reader call write, read  *)
(* and clear in any order.  Each call holds the lock for all it does to    *)
(* the deque, so the calls are the steps.                                  *)

\* the capacity of the buffer, and the number of samples the writer has
RBCapacity == 3
MaxSamples == 5

\* the samples are numbered in the order they are written
NextSamples(k) == [i \in 1..k |-> Len(rb_written) + i]

\* data is <<>> for a call that writes nothing, n is 0 for a call that reads
\* nothing; before is the buffer the call found, fresh the value of rb_fresh
\* it found
RBCall(op, data, n, before, fresh, out) ==
    [op |-> op, data |-> data, n |-> n, before |-> before, fresh |-> fresh,
     out |-> out]

InitRB ==
    /\ ring = <<>>
    /\ rb_written = <<>>
    /\ rb_read = <<>>
    /\ rb_fresh = <<<<>>>>
    /\ rb_call = RBCall("none", <<>>, 0, <<>>, <<>>, <<>>)

\* buffer.write(data) with up to RBCapacity + 1 new samples
RB_Write ==
    \E k \in 1..(RBCapacity + 1) :
        /\ Len(rb_written) + k <= MaxSamples
        /\ ring' = RingWrite(ring, NextSamples(k), RBCapacity)
        /\ rb_written' = rb_written \o NextSamples(k)
        /\ rb_fresh' = IF rb_fresh = <<>> THEN <<>>
                       ELSE <<rb_fresh[1] \o NextSamples(k)>>
        /\ rb_call' = RBCall("write", NextSamples(k), 0, ring, rb_fresh, <<>>)
        /\ UNCHANGED rb_read
        /\ UNCHANGED <<so_vars, ce_vars, sup_vars, ap_vars, pa_vars, gs_vars, late_vars>>

\* buffer.read(n)
RB_Read ==
    \E n \in 0..(RBCapacity + 1) :
        \E r \in {RingRead(ring, n)} :
           /\ ring' = r.buffer
           /\ rb_read' = IF r.out = <<>> THEN rb_read ELSE rb_read \o r.out[1]
           /\ rb_fresh' = IF r.buffer = <<>> THEN <<<<>>>>
                          ELSE IF r.buffer = ring THEN rb_fresh
                          ELSE <<>>
           /\ rb_call' = RBCall("read", <<>>, n, ring, rb_fresh, r.out)
           /\ UNCHANGED rb_written
           /\ UNCHANGED <<so_vars, ce_vars, sup_vars, ap_vars, pa_vars, gs_vars, late_vars>>

\* buffer.clear()
RB_Clear ==
    /\ ring' = RingClear(ring)
    /\ rb_fresh' = <<<<>>>>
    /\ rb_call' = RBCall("clear", <<>>, 0, ring, rb_fresh, <<>>)
    /\ UNCHANGED <<rb_written, rb_read>>
    /\ UNCHANGED <<so_vars, ce_vars, sup_vars, ap_vars, pa_vars, gs_vars, late_vars>>

---------------------------------------------------------------------------
(* A GainSmoother in use on its own.  Its gains are kept in units of       *)
(* 1/Fine of a hundredth, fine enough for MaxSmooth calls of smooth() to   *)
(* be computed without rounding.                                           *)

\* the number of smooth() calls on one smoother
MaxSmooth == 3
Fine == 10 ^ MaxSmooth

\* the configurations asked for (hundredths): valid ones, the ends of the
\* valid range, and invalid ones
Smoothings == {0, 50, 90, ONE, ONE + 10}
NoiseFloors == {0, 10, 30, ONE + 20}

\* the targets passed to smooth() (hundredths): for every bus, or for one
TargetGains == { Gains(0, 0, ONE), Gains(ONE, 50, 0), [noise |-> 20] }

InFine(gains) == [key \in DOMAIN gains |-> gains[key] * Fine]

\* lines 14-21: GainSmoother(smoothing, noise_floor); <<>> when it raises
\* ValueError
NewSmoother(smoothing, noise_floor) ==
    IF ~(0 <= smoothing /\ smoothing <= ONE) THEN <<>>
    ELSE IF ~(0 <= noise_floor /\ noise_floor <= ONE) THEN <<>>
    ELSE <<[smoothing |-> smoothing, noise_floor |-> noise_floor * Fine,
            current |-> InitialCurrent(noise_floor * Fine, Fine), calls |-> 0]>>

\* prev is self.current as the call found it, out what it returned, repeated
\* whether the call before it on this smoother had the same targets
GSCall(op, target_gains, prev, out, repeated) ==
    [op |-> op, target_gains |-> target_gains, prev |-> prev, out |-> out,
     repeated |-> repeated]

InitGS ==
    /\ gs = <<>>
    /\ gs_call = GSCall("none", EmptyDict, EmptyDict, EmptyDict, FALSE)

GS_New ==
    \E smoothing \in Smoothings, noise_floor \in NoiseFloors :
        /\ gs' = NewSmoother(smoothing, noise_floor)
        /\ gs_call' = GSCall(IF NewSmoother(smoothing, noise_floor) = <<>>
                             THEN "raised" ELSE "new",
                             EmptyDict, EmptyDict, EmptyDict, FALSE)
        /\ UNCHANGED <<so_vars, ce_vars, sup_vars, ap_vars, pa_vars, rb_vars, late_vars>>

GS_Smooth ==
    /\ gs # <<>>
    /\ gs[1].calls < MaxSmooth
    /\ \E target_gains \in TargetGains :
          \E out \in {SmoothWith(gs[1].smoothing, gs[1].noise_floor,
                                 gs[1].current, InFine(target_gains))} :
             /\ gs' = <<[gs[1] EXCEPT !.current = out, !.calls = @ + 1]>>
             /\ gs_call' = GSCall("smooth", InFine(target_gains), gs[1].current,
                                  out,
                                  gs_call.op = "smooth"
                                      /\ gs_call.target_gains = InFine(target_gains))
    /\ UNCHANGED <<so_vars, ce_vars, sup_vars, ap_vars, pa_vars, rb_vars, late_vars>>

---------------------------------------------------------------------------
(* The temporal-stability helpers of training/models/semantic_detective.py *)
(* in use on their own.                                                     *)

\* the number of update calls on one buffer or trigger
MaxUpdates == 4

\* the window sizes buffers are made with
WindowSizes == {2, CB_WINDOW_SIZE}

\* the detections passed to ConfidenceBuffer.update: one category below, at
\* and above the threshold, and two categories at once
BufferDetections ==
    { [speech |-> c] : c \in {40, 50, 70, 80} }
        \cup { [speech |-> 80, siren |-> 40], [siren |-> 70] }

\* ConfidenceBuffer(window_size, threshold=0.5)
NewBuffer(window_size) ==
    <<[window_size |-> window_size, threshold |-> CB_THRESHOLD,
       history |-> NoHistories, calls |-> 0]>>

\* ConfidenceBuffer.update: self.history after the call and the dictionary
\* returned
BufferUpdate(buffer, detections) ==
    [history |-> [c \in DOMAIN buffer.history \cup DOMAIN detections |->
                     IF c \in DOMAIN detections
                     THEN BufferHistoryWith(buffer.window_size, buffer.threshold,
                                            buffer.history, c, detections[c])
                     ELSE buffer.history[c]],
     stable  |-> [c \in DOMAIN detections |->
                     Hits(BufferHistoryWith(buffer.window_size, buffer.threshold,
                                            buffer.history, c, detections[c])) >= 2]]

InitCB ==
    /\ cbuf = <<>>
    /\ cb_seen = NoHistories
    /\ cb_call = [detections |-> EmptyDict, stable |-> NoFlags]

CB_New ==
    \E window_size \in WindowSizes :
        /\ cbuf' = NewBuffer(window_size)
        /\ cb_seen' = NoHistories
        /\ cb_call' = [detections |-> EmptyDict, stable |-> NoFlags]
        /\ UNCHANGED <<so_vars, ce_vars, sup_vars, ap_vars, pa_vars, rb_vars, gs_vars, st_vars, dc_vars, dt_vars, ac_vars, new_vars>>

CB_Update ==
    /\ cbuf # <<>>
    /\ cbuf[1].calls < MaxUpdates
    /\ \E detections \in BufferDetections :
          \E r \in {BufferUpdate(cbuf[1], detections)} :
             /\ cbuf' = <<[cbuf[1] EXCEPT !.history = r.history, !.calls = @ + 1]>>
             /\ cb_seen' = [c \in DOMAIN cb_seen \cup DOMAIN detections |->
                               IF c \in DOMAIN detections
                               THEN Append(DictGet(cb_seen, c, <<>>), detections[c])
                               ELSE cb_seen[c]]
             /\ cb_call' = [detections |-> detections, stable |-> r.stable]
    /\ UNCHANGED <<so_vars, ce_vars, sup_vars, ap_vars, pa_vars, rb_vars, gs_vars, st_vars, dc_vars, dt_vars, ac_vars, new_vars>>

\* the calls of SchmittTrigger.update: a category around both thresholds, and
\* a second category
TriggerUpdates ==
    { <<"siren", c>> : c \in {30, OFF_THRESHOLD, 50, 60, ON_THRESHOLD, 72} }
        \cup { <<"speech", 30>>, <<"speech", 72>> }

InitST ==
    /\ trig = NoFlags
    /\ st_log = <<>>

\* trigger.update(category, confidence) on a SchmittTrigger() with the
\* default thresholds; before is self.active as the call found it
ST_Update ==
    /\ Len(st_log) < MaxUpdates
    /\ \E u \in TriggerUpdates :
          /\ trig' = SchmittUpdate(trig, u[1], u[2])
          /\ st_log' = Append(st_log,
                              [category |-> u[1], confidence |-> u[2],
                               before |-> trig,
                               ret |-> DictGet(SchmittUpdate(trig, u[1], u[2]),
                                               u[1], FALSE)])
    /\ UNCHANGED <<so_vars, ce_vars, sup_vars, ap_vars, pa_vars, rb_vars, gs_vars, cb_vars, dc_vars, dt_vars, ac_vars, new_vars>>

\* AdaptiveDutyCycle defaults (seconds)
DC_NORMAL == 3
DC_SAVING == 8
DC_CRITICAL == 15

\* AdaptiveDutyCycle.get_interval on AdaptiveDutyCycle()
GetInterval(battery_percent) ==
    IF battery_percent > 50 THEN DC_NORMAL
    ELSE IF battery_percent > 20 THEN DC_SAVING
    ELSE DC_CRITICAL

InitDC == dc_call = [battery_percent |-> <<>>, interval |-> <<>>]

DC_GetInterval ==
    /\ \E battery_percent \in 0..ONE :
          dc_call' = [battery_percent |-> <<battery_percent>>,
                      interval |-> <<GetInterval(battery_percent)>>]
    /\ UNCHANGED <<so_vars, ce_vars, sup_vars, ap_vars, pa_vars, rb_vars, gs_vars, cb_vars, st_vars, dt_vars, ac_vars, new_vars>>

---------------------------------------------------------------------------
(* DetectionThread (audio/detection_thread.py): run() as a sequence of     *)
(* steps, with stop() called from another thread at any moment.            *)

\* the number of detection cycles one thread starts
MaxCycles == 3

\* base_interval default (seconds)
BASE_INTERVAL == 3

\* what battery_fn returns: None, or a percentage
Batteries == { <<>>, <<10>>, <<75>> }

\* line 71: the loop goes on while the stop event is not set
LoopCondition_Forever(stop_is_set) == TRUE
LoopCondition(stop_is_set) == ~stop_is_set

\* lines 107-114: _compute_interval
ComputeInterval(duty_cycle, battery) ==
    IF ~duty_cycle THEN BASE_INTERVAL
    ELSE IF battery = <<>> THEN BASE_INTERVAL
    ELSE GetInterval(battery[1])

\* lines 89-93: where run() is after classify raised: the exception is
\* caught in _run_detection, which returns None
OnClassifyError_Propagate == "crashed"
OnClassifyError == "sleep"

\* lines 75-79: where run() is after the callback raised
OnCallbackError == "sleep"

\* lines 84-87: where run() is after get_audio(): None ends _run_detection
\* with None and run() goes to its sleep; an exception of the accessor is
\* caught nowhere
AfterGetAudio_Classify(result) == IF result = "raised" THEN "crashed" ELSE "classify"
AfterGetAudio(result) ==
    CASE result = "no_data" -> "sleep"
      [] result = "audio" -> "classify"
      [] result = "raised" -> "crashed"

\* what the steps of one cycle did: "none" while not reached; the thread
\* also counts the cycles started, the callback invocations, the cycles in
\* which the classifier or the callback raised, and the sleeps that ended
\* after stop(), and records where run() was when stop() was called, the
\* number of classify calls that updated the stability stack of the
\* detective (stack), and the length of the last sleep (slept)
NoCycle == [audio |-> "none", classify |-> "none", callback |-> "none"]

InitDT ==
    dthread = [pc |-> "new", stop |-> FALSE, duty_cycle |-> FALSE, interval |-> 0,
               cycle |-> NoCycle, cycles |-> 0, delivered |-> 0, failed |-> 0,
               stop_at |-> "none", done_after_stop |-> 0, stack |-> 0, slept |-> 0]

\* DetectionThread(...).start(), with or without a duty cycle
DT_Start ==
    /\ dthread.pc = "new"
    /\ \E duty_cycle \in BOOLEAN :
          dthread' = [dthread EXCEPT !.pc = "check", !.duty_cycle = duty_cycle]
    /\ UNCHANGED <<so_vars, ce_vars, sup_vars, ap_vars, pa_vars, rb_vars, gs_vars, cb_vars, st_vars, dc_vars, ac_vars, new_vars>>

\* stop(), from any other thread
DT_Stop ==
    /\ ~dthread.stop
    /\ dthread' = [dthread EXCEPT !.stop = TRUE, !.stop_at = dthread.pc]
    /\ UNCHANGED <<so_vars, ce_vars, sup_vars, ap_vars, pa_vars, rb_vars, gs_vars, cb_vars, st_vars, dc_vars, ac_vars, new_vars>>

\* line 71: the while test; a cycle starts with _compute_interval
DT_Check ==
    /\ dthread.pc = "check"
    /\ IF LoopCondition(dthread.stop)
       THEN /\ dthread.cycles < MaxCycles
            /\ \E battery \in Batteries :
                  dthread' = [dthread EXCEPT
                                 !.pc = "get_audio",
                                 !.interval = ComputeInterval(dthread.duty_cycle, battery),
                                 !.cycle = NoCycle,
                                 !.cycles = @ + 1]
       ELSE dthread' = [dthread EXCEPT !.pc = "exited"]
    /\ UNCHANGED <<so_vars, ce_vars, sup_vars, ap_vars, pa_vars, rb_vars, gs_vars, cb_vars, st_vars, dc_vars, ac_vars, new_vars>>

\* lines 84-86: get_audio() returns None or a window, or raises
DT_GetAudio ==
    /\ dthread.pc = "get_audio"
    /\ \E result \in {"no_data", "audio", "raised"} :
          dthread' = [dthread EXCEPT
                         !.pc = AfterGetAudio(result),
                         !.cycle.audio = result]
    /\ UNCHANGED <<so_vars, ce_vars, sup_vars, ap_vars, pa_vars, rb_vars, gs_vars, cb_vars, st_vars, dc_vars, ac_vars, new_vars>>

\* lines 89-105: classify returns, and the payload is built, or raises; a
\* classify that raises may have updated the stability stack before it did
DT_Classify ==
    /\ dthread.pc = "classify"
    /\ \E result \in {"ok", "raised"}, updated \in BOOLEAN :
          /\ result = "ok" => updated
          /\ dthread' = [dthread EXCEPT
                         !.pc = IF result = "ok" THEN "callback" ELSE OnClassifyError,
                         !.cycle.classify = result,
                         !.stack = IF updated THEN @ + 1 ELSE @,
                         !.failed = IF result = "raised" THEN @ + 1 ELSE @]
    /\ UNCHANGED <<so_vars, ce_vars, sup_vars, ap_vars, pa_vars, rb_vars, gs_vars, cb_vars, st_vars, dc_vars, ac_vars, new_vars>>

\* lines 74-79: callback(payload) returns or raises
DT_Callback ==
    /\ dthread.pc = "callback"
    /\ \E result \in {"ok", "raised"} :
          dthread' = [dthread EXCEPT
                         !.pc = IF result = "ok" THEN "sleep" ELSE OnCallbackError,
                         !.cycle.callback = result,
                         !.delivered = @ + 1,
                         !.failed = IF result = "raised" THEN @ + 1 ELSE @]
    /\ UNCHANGED <<so_vars, ce_vars, sup_vars, ap_vars, pa_vars, rb_vars, gs_vars, cb_vars, st_vars, dc_vars, ac_vars, new_vars>>

\* line 80: time.sleep(interval) returns
DT_Sleep ==
    /\ dthread.pc = "sleep"
    /\ dthread' = [dthread EXCEPT
                      !.pc = "check",
                      !.slept = dthread.interval,
                      !.done_after_stop = IF dthread.stop THEN @ + 1 ELSE @]
    /\ UNCHANGED <<so_vars, ce_vars, sup_vars, ap_vars, pa_vars, rb_vars, gs_vars, cb_vars, st_vars, dc_vars, ac_vars, new_vars>>

\* the steps of run()
DT_Run == DT_Check \/ DT_GetAudio \/ DT_Classify \/ DT_Callback \/ DT_Sleep

---------------------------------------------------------------------------
(* The AutoController used on its own: get_recommendation on detection     *)
(* dictionaries on both sides of every trigger threshold of the profiles.  *)

\* the detection dictionaries given to it; a category may be missing
ACDetections ==
    [traffic : {0, 30, 59, 60, 84, 85, ONE}, alarm : {0, 59, 60, 61, 90},
     speech : {0, 50, 80}]
    \cup { [traffic |-> 90], [alarm |-> 60], [speech |-> 80] }

\* AutoController._evaluate_profile_triggers of every profile, in the order
\* of get_all_profiles()
ProfileScores(detections) ==
    [i \in 1..Len(Profiles) |-> EvaluateProfileTriggers(Profiles[i].id, detections)]

InitAC ==
    ac_call = [called |-> FALSE, detections |-> NoDetections, scores |-> <<>>,
               profile |-> None, confidence |-> 0]

\* AutoController.get_recommendation(detections)
AC_GetRecommendation ==
    /\ \E detections \in ACDetections :
          \E rec \in {GetRecommendation(detections)} :
             ac_call' = [called |-> TRUE, detections |-> detections,
                         scores |-> ProfileScores(detections),
                         profile |-> rec.profile, confidence |-> rec.confidence]
    /\ UNCHANGED <<so_vars, ce_vars, sup_vars, ap_vars, pa_vars, rb_vars, gs_vars, cb_vars, st_vars, dc_vars, dt_vars, new_vars>>

---------------------------------------------------------------------------
(* One ControlEngine called from several threads.  apply_profile is        *)
(* control_engine.py lines 162-178 with _apply_gains, lines 204-223: it    *)
(* writes current_profile, then current_gains, and takes no lock, so each  *)
(* write is a step.  process_audio follows section 4.8 of the              *)
(* specification: it reads the active profile once, then calls the         *)
(* suppressor.                                                             *)

\* the number of threads
MaxThreads == 2

Idle == [pc |-> "idle", profile |-> None, audio |-> <<>>, result |-> "same",
         ret |-> <<>>, raised |-> FALSE]

InitCC == callers = [t \in 1..MaxThreads |-> Idle]

\* the suppression map of a profile
SuppressionMap(id) == [c \in ProfileById(id).suppressions |-> TRUE]

\* apply_profile(profile), line 172: self.current_profile = profile
CC_ApplyProfile ==
    \E t \in 1..MaxThreads, id \in ProfileIds :
        /\ callers[t].pc = "idle"
        /\ current_profile' = id
        /\ callers' = [callers EXCEPT ![t] = [Idle EXCEPT !.pc = "apply_gains",
                                                         !.profile = id]]
        /\ UNCHANGED <<mode, current_gains, last_detections, last_recommendation,
                       ce_call, user_gains>>
        /\ UNCHANGED <<so_vars, sup_vars, ap_vars, pa_vars, rb_vars, gs_vars, cb_vars, st_vars, dc_vars, dt_vars, ac_vars, gq_vars, ch_vars, mc_vars>>

\* apply_profile, lines 175-176, and _apply_gains, line 212:
\* self.current_gains = gains
CC_ApplyGains ==
    \E t \in 1..MaxThreads :
        /\ callers[t].pc = "apply_gains"
        /\ current_gains' = ProfileGains(callers[t].profile)
        /\ user_gains' = ProfileGains(callers[t].profile)
        /\ callers' = [callers EXCEPT ![t] = Idle]
        /\ UNCHANGED <<mode, current_profile, last_detections, last_recommendation,
                       ce_call>>
        /\ UNCHANGED <<so_vars, sup_vars, ap_vars, pa_vars, rb_vars, gs_vars, cb_vars, st_vars, dc_vars, dt_vars, ac_vars, gq_vars, ch_vars, mc_vars>>

\* process_audio(audio, sample_rate): the snapshot of the active profile
CC_Snapshot ==
    \E t \in 1..MaxThreads, audio \in Audios :
        /\ callers[t].pc = "idle"
        /\ callers' = [callers EXCEPT ![t] = [Idle EXCEPT !.pc = "suppress",
                                                         !.profile = current_profile,
                                                         !.audio = audio]]
        /\ UNCHANGED <<so_vars, ce_vars, sup_vars, ap_vars, pa_vars, rb_vars, gs_vars, cb_vars, st_vars, dc_vars, dt_vars, ac_vars, gq_vars, ch_vars, mc_vars>>

\* process_audio: the bypass or the suppressor call, and the return
CC_Suppress ==
    \E t \in 1..MaxThreads, result \in SuppressorResults :
        /\ callers[t].pc = "suppress"
        /\ \E r \in {ProcessAudio(SuppressionMap(callers[t].profile), callers[t].audio, result)} :
           /\ r.suppress_calls = <<>> => result = "same"
           /\ callers' = [callers EXCEPT ![t] = [@ EXCEPT !.pc = "idle",
                                                          !.result = result,
                                                          !.ret = r.ret]]
           /\ UNCHANGED <<so_vars, ce_vars, sup_vars, ap_vars, pa_vars, rb_vars, gs_vars, cb_vars, st_vars, dc_vars, dt_vars, ac_vars, gq_vars, ch_vars, mc_vars>>

---------------------------------------------------------------------------
(* The gain queue between MixerController.set_gains (mixer_controller.py   *)
(* lines 71-93) and AudioProcess._drain_gains (audio_process.py lines      *)
(* 52-61), one queue operation at a time.  The updates are numbered in the *)
(* order they are sent.                                                    *)

\* the number of set_gains calls
MaxSent == 3

\* the gains sent: away from the gains of a new smoother on every bus, with
\* the noise below the floor, and back
SentGains == { Gains(0, 0, ONE), Gains(ONE, 50, 50) }

\* line 56: gains = self.gain_queue.get_nowait()
DrainTake_KeepFirst(gains, message) == IF gains = <<>> THEN <<message>> ELSE gains
DrainTake(gains, message) == <<message>>

\* lines 59-61: the target of smooth(), the update taken last or, with none
\* taken, smoother.current itself
DrainTarget(gains, current) == IF gains = <<>> THEN current ELSE gains[1].gains

InitGQ ==
    gq = [s_pc |-> "idle", s_gains |-> <<>>, sent |-> 0,
          w_pc |-> "idle", w_gains |-> <<>>, applied |-> <<>>,
          before |-> SmootherInit, pending |-> FALSE, began |-> 0]

\* the number of set_gains calls that have returned
Returned == IF gq.s_pc = "idle" THEN gq.sent ELSE gq.sent - 1

\* set_gains(speech, noise, events), line 82
GQ_SetGains ==
    \E g \in SentGains :
        /\ gq.s_pc = "idle"
        /\ gq.sent < MaxSent
        /\ gq' = [gq EXCEPT !.s_pc = "empty", !.sent = @ + 1,
                            !.s_gains = <<[n |-> gq.sent + 1, gains |-> g]>>]
        /\ UNCHANGED <<ap_vars, so_vars, ce_vars, sup_vars, pa_vars, rb_vars, gs_vars, cb_vars, st_vars, dc_vars, dt_vars, ac_vars, cc_vars, ch_vars, mc_vars>>

\* line 84: while not self._gain_queue.empty()
GQ_SenderEmpty ==
    /\ gq.s_pc = "empty"
    /\ gq' = [gq EXCEPT !.s_pc = IF Len(gain_queue) = 0 THEN "put" ELSE "get"]
    /\ UNCHANGED <<ap_vars, so_vars, ce_vars, sup_vars, pa_vars, rb_vars, gs_vars, cb_vars, st_vars, dc_vars, dt_vars, ac_vars, cc_vars, ch_vars, mc_vars>>

\* lines 85-88: get_nowait drops the oldest update; queue.Empty ends the loop
GQ_SenderGet ==
    /\ gq.s_pc = "get"
    /\ gain_queue' = IF Len(gain_queue) = 0 THEN gain_queue ELSE Tail(gain_queue)
    /\ gq' = [gq EXCEPT !.s_pc = IF Len(gain_queue) = 0 THEN "put" ELSE "empty"]
    /\ UNCHANGED <<worker, stop_event, input_buffer, output_buffer,
                   detection_queue, smoother, mic, speaker, ap_call>>
    /\ UNCHANGED <<so_vars, ce_vars, sup_vars, pa_vars, rb_vars, gs_vars, cb_vars, st_vars, dc_vars, dt_vars, ac_vars, cc_vars, ch_vars, mc_vars>>

\* lines 89-93: put_nowait; queue.Full is swallowed
GQ_SenderPut ==
    /\ gq.s_pc = "put"
    /\ gain_queue' = PutNowait(gain_queue, gq.s_gains[1], GAIN_QUEUE_MAXSIZE)
    /\ gq' = [gq EXCEPT !.s_pc = "idle", !.s_gains = <<>>]
    /\ UNCHANGED <<worker, stop_event, input_buffer, output_buffer,
                   detection_queue, smoother, mic, speaker, ap_call>>
    /\ UNCHANGED <<so_vars, ce_vars, sup_vars, pa_vars, rb_vars, gs_vars, cb_vars, st_vars, dc_vars, dt_vars, ac_vars, cc_vars, ch_vars, mc_vars>>

\* _drain_gains, line 53: gains = None
GQ_DrainBegin ==
    /\ gq.w_pc = "idle"
    /\ gq' = [gq EXCEPT !.w_pc = "get", !.w_gains = <<>>, !.began = Returned,
                        !.pending = FALSE]
    /\ UNCHANGED <<ap_vars, so_vars, ce_vars, sup_vars, pa_vars, rb_vars, gs_vars, cb_vars, st_vars, dc_vars, dt_vars, ac_vars, cc_vars, ch_vars, mc_vars>>

\* lines 54-56: get_nowait returns an update
GQ_DrainGet ==
    /\ gq.w_pc = "get"
    /\ Len(gain_queue) > 0
    /\ gain_queue' = Tail(gain_queue)
    /\ gq' = [gq EXCEPT !.w_gains = DrainTake(gq.w_gains, Head(gain_queue))]
    /\ UNCHANGED <<worker, stop_event, input_buffer, output_buffer,
                   detection_queue, smoother, mic, speaker, ap_call>>
    /\ UNCHANGED <<so_vars, ce_vars, sup_vars, pa_vars, rb_vars, gs_vars, cb_vars, st_vars, dc_vars, dt_vars, ac_vars, cc_vars, ch_vars, mc_vars>>

\* lines 57-61: queue.Empty ends the loop, and the smoother is called
GQ_DrainSmooth ==
    /\ gq.w_pc = "get"
    /\ Len(gain_queue) = 0
    /\ smoother' = Smooth(smoother, DrainTarget(gq.w_gains, smoother))
    /\ gq' = [gq EXCEPT !.w_pc = "idle", !.w_gains = <<>>,
                        !.applied = @ \o gq.w_gains,
                        !.before = smoother,
                        !.pending = gq.w_gains # <<>>]
    /\ UNCHANGED <<worker, stop_event, input_buffer, output_buffer,
                   detection_queue, gain_queue, mic, speaker, ap_call>>
    /\ UNCHANGED <<so_vars, ce_vars, sup_vars, pa_vars, rb_vars, gs_vars, cb_vars, st_vars, dc_vars, dt_vars, ac_vars, cc_vars, ch_vars, mc_vars>>

---------------------------------------------------------------------------
(* The two queues under load: any number of threads up to MaxSenders call  *)
(* MixerController.set_gains at once, the worker takes gain updates and    *)
(* pushes level messages, and the user interface takes level messages or   *)
(* does not.  The callers of set_gains are counted by the line they are    *)
(* at; the messages are all alike.                                         *)

\* the number of threads calling set_gains
MaxSenders == 9

GainMessage == Gains(ONE, 0, 50)
LevelMessage == [rms |-> 0, gains |-> SmootherInit]

InitCH == ch = [empty |-> 0, get |-> 0, put |-> 0, gain |-> "none", level |-> "none"]

\* what a put_nowait did to a queue
PutOutcome(queue, maxsize) ==
    IF Len(PutNowait(queue, GainMessage, maxsize)) > Len(queue) THEN "put" ELSE "dropped"

\* set_gains(speech, noise, events), line 82
CH_SetGains ==
    /\ ch.empty + ch.get + ch.put < MaxSenders
    /\ ch' = [ch EXCEPT !.empty = @ + 1]
    /\ UNCHANGED <<ap_vars, so_vars, ce_vars, sup_vars, pa_vars, rb_vars, gs_vars, cb_vars, st_vars, dc_vars, dt_vars, ac_vars, cc_vars, gq_vars, mc_vars>>

\* line 84: while not self._gain_queue.empty()
CH_SenderEmpty ==
    /\ ch.empty > 0
    /\ ch' = IF Len(gain_queue) = 0
             THEN [ch EXCEPT !.empty = @ - 1, !.put = @ + 1]
             ELSE [ch EXCEPT !.empty = @ - 1, !.get = @ + 1]
    /\ UNCHANGED <<ap_vars, so_vars, ce_vars, sup_vars, pa_vars, rb_vars, gs_vars, cb_vars, st_vars, dc_vars, dt_vars, ac_vars, cc_vars, gq_vars, mc_vars>>

\* lines 85-88: get_nowait drops the oldest update; queue.Empty ends the loop
CH_SenderGet ==
    /\ ch.get > 0
    /\ gain_queue' = IF Len(gain_queue) = 0 THEN gain_queue ELSE Tail(gain_queue)
    /\ ch' = IF Len(gain_queue) = 0
             THEN [ch EXCEPT !.get = @ - 1, !.put = @ + 1]
             ELSE [ch EXCEPT !.get = @ - 1, !.empty = @ + 1]
    /\ UNCHANGED <<worker, stop_event, input_buffer, output_buffer,
                   detection_queue, smoother, mic, speaker, ap_call>>
    /\ UNCHANGED <<so_vars, ce_vars, sup_vars, pa_vars, rb_vars, gs_vars, cb_vars, st_vars, dc_vars, dt_vars, ac_vars, cc_vars, gq_vars, mc_vars>>

\* lines 89-93: put_nowait; queue.Full is swallowed, and set_gains returns
CH_SenderPut ==
    /\ ch.put > 0
    /\ gain_queue' = PutNowait(gain_queue, GainMessage, GAIN_QUEUE_MAXSIZE)
    /\ ch' = [ch EXCEPT !.put = @ - 1,
                        !.gain = PutOutcome(gain_queue, GAIN_QUEUE_MAXSIZE)]
    /\ UNCHANGED <<worker, stop_event, input_buffer, output_buffer,
                   detection_queue, smoother, mic, speaker, ap_call>>
    /\ UNCHANGED <<so_vars, ce_vars, sup_vars, pa_vars, rb_vars, gs_vars, cb_vars, st_vars, dc_vars, dt_vars, ac_vars, cc_vars, gq_vars, mc_vars>>

\* audio_process.py line 56: the worker takes a gain update
CH_DrainGet ==
    /\ Len(gain_queue) > 0
    /\ gain_queue' = Tail(gain_queue)
    /\ UNCHANGED ch
    /\ UNCHANGED <<worker, stop_event, input_buffer, output_buffer,
                   detection_queue, smoother, mic, speaker, ap_call>>
    /\ UNCHANGED <<so_vars, ce_vars, sup_vars, pa_vars, rb_vars, gs_vars, cb_vars, st_vars, dc_vars, dt_vars, ac_vars, cc_vars, gq_vars, mc_vars>>

\* audio_process.py lines 161-164: the worker pushes a level message;
\* queue.Full is swallowed
CH_PushLevels ==
    /\ detection_queue' = PutNowait(detection_queue, LevelMessage,
                                    DETECTION_QUEUE_MAXSIZE)
    /\ ch' = [ch EXCEPT !.level = PutOutcome(detection_queue, DETECTION_QUEUE_MAXSIZE)]
    /\ UNCHANGED <<worker, stop_event, input_buffer, output_buffer,
                   gain_queue, smoother, mic, speaker, ap_call>>
    /\ UNCHANGED <<so_vars, ce_vars, sup_vars, pa_vars, rb_vars, gs_vars, cb_vars, st_vars, dc_vars, dt_vars, ac_vars, cc_vars, gq_vars, mc_vars>>

\* MixerController.get_levels
CH_GetLevels ==
    /\ Len(detection_queue) > 0
    /\ detection_queue' = Tail(detection_queue)
    /\ UNCHANGED ch
    /\ UNCHANGED <<worker, stop_event, input_buffer, output_buffer,
                   gain_queue, smoother, mic, speaker, ap_call>>
    /\ UNCHANGED <<so_vars, ce_vars, sup_vars, pa_vars, rb_vars, gs_vars, cb_vars, st_vars, dc_vars, dt_vars, ac_vars, cc_vars, gq_vars, mc_vars>>

---------------------------------------------------------------------------
(* Specifications                                                          *)

Init == InitSO /\ InitCE /\ InitSup /\ InitAP /\ InitPA /\ InitRB /\ InitGS
        /\ InitCB /\ InitST /\ InitDC /\ InitDT /\ InitAC /\ InitCC /\ InitGQ /\ InitCH /\ InitMC

\* the SafetyOverride driven directly
NextSO == Tick \/ SO_Check \/ SO_ApplyOverride \/ SO_Reset
SpecSO == Init /\ [][NextSO]_vars

\* the ControlEngine with its own SafetyOverride and AutoController
NextCE == Tick \/ SetMode \/ ApplyProfile \/ SetGains \/ OnDetectionUpdate
SpecCE == Init /\ [][NextCE]_vars

\* the suppressor and its detector
NextSup == SUP_Suppress \/ SUP_DetectCategories
SpecSup == Init /\ [][NextSup]_vars

\* first calls on new suppressors, with every argument varied
NextNew == SUP_SuppressNew
SpecNew == Init /\ [][NextNew]_vars

\* the audio worker, its threads and the controller's two queues
NextAP ==
    \/ AP_Run \/ AP_Stop \/ AP_Capture \/ AP_Playback \/ AP_Inference
    \/ AP_InferenceExit \/ AP_Close \/ AP_Exit \/ MC_SetGains \/ MC_GetLevels
    \/ MC_Start \/ MC_Stop \/ MC_StopJoined
SpecAP == Init /\ [][NextAP]_vars

\* the audio path of the ControlEngine
NextPA ==
    \/ PA_SetProfile \/ PA_ProcessAudio \/ PA_ProcessAudioOptimization
    \/ ApplyProfile \/ SetGains
SpecPA == Init /\ [][NextPA]_vars

\* a ring buffer with its writer and its reader
NextRB == RB_Write \/ RB_Read \/ RB_Clear
SpecRB == Init /\ [][NextRB]_vars

\* a gain smoother
NextGS == GS_New \/ GS_Smooth
SpecGS == Init /\ [][NextGS]_vars

\* a confidence buffer
NextCB == CB_New \/ CB_Update
SpecCB == Init /\ [][NextCB]_vars

\* a Schmitt trigger
NextST == ST_Update
SpecST == Init /\ [][NextST]_vars

\* a duty cycle
NextDC == DC_GetInterval
SpecDC == Init /\ [][NextDC]_vars

\* a detection thread; the thread is scheduled, and the calls it makes
\* return, so a step of run() that can be taken is taken
NextDT ==
    \/ DT_Start
    \/ DT_Stop
    \/ DT_Check
    \/ DT_GetAudio
    \/ DT_Classify
    \/ DT_Callback
    \/ DT_Sleep
SpecDT == Init /\ [][NextDT]_vars /\ WF_vars(DT_Run)

\* an AutoController
NextAC == AC_GetRecommendation
SpecAC == Init /\ [][NextAC]_vars

\* one ControlEngine and the threads that call it
NextCC == CC_ApplyProfile \/ CC_ApplyGains \/ CC_Snapshot \/ CC_Suppress
SpecCC == Init /\ [][NextCC]_vars

\* the gain queue with its sender and the worker that drains it
NextGQ ==
    \/ GQ_SetGains
    \/ GQ_SenderEmpty
    \/ GQ_SenderGet
    \/ GQ_SenderPut
    \/ GQ_DrainBegin
    \/ GQ_DrainGet
    \/ GQ_DrainSmooth
SpecGQ == Init /\ [][NextGQ]_vars

\* the two queues with their senders and receivers
NextCH ==
    \/ CH_SetGains
    \/ CH_SenderEmpty
    \/ CH_SenderGet
    \/ CH_SenderPut
    \/ CH_DrainGet
    \/ CH_PushLevels
    \/ CH_GetLevels
SpecCH == Init /\ [][NextCH]_vars


---------------------------------------------------------------------------
(* Properties of the SafetyOverride (SpecSO)                               *)

\* the last call was a check(), alone or inside apply_override(), that returned
Checked == so_call.op \in {"check", "apply_override"}

\* seconds between the last qualifying detection and the last call
SinceLastQual == so_call.t - so_hist.last_qual

\* the last call was handed the first qualifying detection, or none so far
FreshCheck ==
    /\ so_call.op = "check"
    /\ IF QualifyingDetection(so_call.detections)
       THEN so_hist.n_qual = 1 /\ so_hist.last_qual = so_call.t
            /\ so_call.prev_status = NORMAL
       ELSE so_hist.n_qual = 0

\* the critical categories of a detection that qualify with the highest confidence
TopCritical(d) ==
    {c \in {"siren", "alarm"} :
        /\ DetGet(d, c) >= 70
        /\ \A o \in {"siren", "alarm"} : DetGet(d, o) <= DetGet(d, c)}

\* C3: on a SafetyOverride with no earlier qualifying detection, check(d)
\* returns an alert; it is active exactly when a critical category is at or
\* above 0.7, then names the qualifying category of highest confidence with
\* that confidence and the status is OVERRIDE_ACTIVE; otherwise it is inactive
\* with no category and the status stays NORMAL.
C3_FreshCheckReturnsAlert ==
    FreshCheck =>
        /\ so_call.ret_alert # <<>>
        /\ so_call.ret_alert[1].active = QualifyingDetection(so_call.detections)
        /\ IF QualifyingDetection(so_call.detections)
           THEN /\ so_call.ret_alert[1].category \in TopCritical(so_call.detections)
                /\ so_call.ret_alert[1].confidence
                       = DetGet(so_call.detections, so_call.ret_alert[1].category)
                /\ safety_override.status = OVERRIDE_ACTIVE
           ELSE /\ so_call.ret_alert[1].category = None
                /\ safety_override.status = NORMAL

\* C4: after one qualifying detection and none since, is_active() is true at
\* every check made less than HOLD_TIME (5 s) after it and false at every
\* check made HOLD_TIME or more after it.
C4_HoldTime ==
    (Checked /\ ~so_call.raised /\ so_hist.n_qual = 1
             /\ ~QualifyingDetection(so_call.detections))
        => (IsActive(safety_override) <=> SinceLastQual < 5)

C4_Witness ==
    /\ so_call.op = "check" /\ so_hist.n_qual = 1
    /\ ~QualifyingDetection(so_call.detections)
    /\ SinceLastQual = 5
    /\ so_call.prev_status = OVERRIDE_FADING
    /\ ~IsActive(safety_override)

\* C5: from any status a check() with a qualifying detection sets the status
\* to OVERRIDE_ACTIVE, and the override then stays active at every check made
\* less than HOLD_TIME after this latest qualifying detection (and no longer),
\* whenever the earlier ones were.
C5_HoldRestarts ==
    /\ (Checked /\ QualifyingDetection(so_call.detections))
          => /\ safety_override.status = OVERRIDE_ACTIVE
             /\ IsActive(safety_override)
             /\ safety_override.last_critical_detection_time = so_call.t
    /\ (Checked /\ so_hist.n_qual >= 1 /\ ~QualifyingDetection(so_call.detections))
          => (IsActive(safety_override) <=> SinceLastQual < 5)

C5_Witness ==
    /\ so_call.op = "check" /\ so_hist.n_qual = 2
    /\ ~QualifyingDetection(so_call.detections)
    /\ so_call.t - so_hist.first_qual >= 5
    /\ SinceLastQual < 5
    /\ IsActive(safety_override)

\* C6: a check() without qualifying detection made e seconds after the last
\* qualifying one gives, for e < HOLD_TIME, the status OVERRIDE_FADING and an
\* active alert without category of confidence 1 - e/HOLD_TIME, and for
\* e >= HOLD_TIME the status NORMAL and an inactive alert of confidence 0.
C6_FadingDecay ==
    (so_call.op = "check" /\ so_hist.n_qual >= 1
         /\ ~QualifyingDetection(so_call.detections))
        => /\ so_call.ret_alert # <<>>
           /\ so_call.ret_alert[1].category = None
           /\ IF SinceLastQual < 5
              THEN /\ safety_override.status = OVERRIDE_FADING
                   /\ so_call.ret_alert[1].active
                   /\ 5 * so_call.ret_alert[1].confidence
                          = 100 * (5 - SinceLastQual)
              ELSE /\ safety_override.status = NORMAL
                   /\ ~so_call.ret_alert[1].active
                   /\ so_call.ret_alert[1].confidence = 0

C6_Witness ==
    /\ so_call.op = "check" /\ so_hist.n_qual >= 1
    /\ ~QualifyingDetection(so_call.detections)
    /\ SinceLastQual = 2
    /\ so_call.ret_alert # <<>>
    /\ so_call.ret_alert[1].confidence = 60
    /\ safety_override.status = OVERRIDE_FADING

\* the last call was apply_override() with a critical category at or above 0.7
OverrideApplied ==
    so_call.op = "apply_override" /\ QualifyingDetection(so_call.detections)

\* C7 as claimed: the override sets "events" to 1.0 and every other bus to 0.2
\* times the value passed in.
C7_DuckedToFraction ==
    OverrideApplied =>
        /\ so_call.ret_gains["events"] = 100
        /\ \A b \in Buses \ {"events"} :
              100 * so_call.ret_gains[b] = 20 * so_call.gains[b]

\* C7 amended: the override sets "events" to 1.0 and every other bus to the
\* smaller of the value passed in and 0.2.
C7_DuckedToCeiling ==
    OverrideApplied =>
        /\ so_call.ret_gains["events"] = 100
        /\ \A b \in Buses \ {"events"} :
              /\ so_call.ret_gains[b] <= so_call.gains[b]
              /\ so_call.ret_gains[b] <= 20
              /\ so_call.ret_gains[b] \in {so_call.gains[b], 20}

C7_Witness ==
    /\ OverrideApplied
    /\ so_call.gains["speech"] = 50 /\ so_call.ret_gains["speech"] = 20
    /\ so_call.gains["noise"] = 10 /\ so_call.ret_gains["noise"] = 10


---------------------------------------------------------------------------
(* Properties of the ControlEngine (SpecCE)                                *)

\* the call c on the engine was on_detection_update
Updated(c) == c.op = "on_detection_update"

\* the calls made on the AutoController, or to switch the profile
AutoCalls ==
    {"auto_controller.get_recommendation", "auto_controller.should_switch_profile",
     "apply_profile"}

Made(c, names) == \E i \in 1..Len(c.calls) : c.calls[i] \in names

\* C2: every on_detection_update(d), in Auto and in Manual mode alike, first
\* evaluates the SafetyOverride on d, so that a qualifying d is found active;
\* when the override is active the call makes no call on the AutoController
\* and leaves the active profile and the last recommendation as they were.
C2_SafetyFirst ==
    [][Updated(ce_call') =>
          /\ Len(ce_call'.calls) >= 1
          /\ ce_call'.calls[1] = "safety_override.check"
          /\ (QualifyingDetection(last_detections') => ce_call'.active)
          /\ (ce_call'.active =>
                /\ ~Made(ce_call', AutoCalls)
                /\ current_profile' = current_profile
                /\ last_recommendation' = last_recommendation)]_vars

\* an update in Auto mode whose detection both qualifies for the override and
\* satisfies the trigger of a profile other than the active one
C2_Witness ==
    /\ Updated(ce_call) /\ ce_call.active /\ mode = AUTO
    /\ last_detections = [siren |-> 85, traffic |-> 60]
    /\ current_profile = "default-focus"
    /\ Evaluate(last_detections) = "default-commute"

\* C8: the override gains are never stored as the user's gains: once the
\* status is back to NORMAL the engine's current gains are those the user or
\* the profile had set.
C8_GainsRestored ==
    safety_override.status = NORMAL => current_gains = user_gains

\* C9: an update that finds the override active makes the built-in
\* pass-through profile the active profile.
C9_PassThroughOnOverride ==
    (Updated(ce_call) /\ ce_call.active) => current_profile = "default-passthrough"

---------------------------------------------------------------------------
(* Properties of the suppressor.                                           *)

Last(seq) == seq[Len(seq)]

\* a safety-override category of the class map is active after hysteresis
SafetyActive == 
    \E category \in DOMAIN ClassMap :
        ClassMap[category].safety_override
            /\ DictGet(detector.schmitt, category, FALSE)

\* the last call was suppress with safety_check on, it ran the classifier, and
\* the classifier's post-hysteresis state of a safety category is active
SafetyCall ==
    /\ sup_call.op = "suppress"
    /\ sup_call.safety_check
    /\ sup_call.states # <<>>
    /\ SafetyActive

\* C1: whenever suppress is called with safety_check on and the classifier's
\* post-hysteresis state of a safety-override category is active for the
\* call, the buffer returned is the input buffer and the separator was not
\* invoked, whatever the audio and the requested categories.
C1_SafetyBypass ==
    SafetyCall => sup_call.ret = sup_call.audio /\ sup_call.separated = 0

\* the bypass did something: an audible buffer, traffic requested and heard
\* above its threshold in this very call, which without the bypass would
\* have gone to the separator
C1_Witness ==
    /\ SafetyCall
    /\ sup_call.categories = <<"siren", "traffic">>
    /\ sup_call.audio = <<40, 0 - 20>>
    /\ Last(detector.conf_buffer["traffic"])
    /\ sup_call.ret = sup_call.audio

\* C20: a call suppress(audio, rate, []) returns the audio as it was given,
\* runs neither the classifier nor the separator, and leaves the detector's
\* confidence histories and hysteresis flags as they were before the call.
C20_EmptyListPassThrough ==
    [][(sup_call'.op = "suppress" /\ sup_call'.categories = <<>>)
          => /\ sup_call'.ret = sup_call'.audio
             /\ sup_call'.states = <<>>
             /\ sup_call'.separated = 0
             /\ detector' = detector]_vars

\* such a call on an audible buffer, made while the detector holds histories
\* and an active siren flag from earlier calls
C20_Witness ==
    /\ sup_call.op = "suppress"
    /\ sup_call.categories = <<>>
    /\ sup_call.audio = <<40, 0 - 20>>
    /\ sup_call.ret = <<40, 0 - 20>>
    /\ SafetyActive
    /\ "siren" \in DOMAIN detector.conf_buffer
    /\ Len(detector.conf_buffer["siren"]) = CB_WINDOW_SIZE

\* a suppress call with categories that ran the classifier and was not
\* ended by the safety check
NotAborted ==
    /\ sup_call.op = "suppress"
    /\ sup_call.categories # <<>>
    /\ ~(sup_call.safety_check /\ CheckSafetyOverride(sup_call.states[1]))

EffectiveThreshold(category) ==
    IF CategoryMap[category].detection_threshold # <<>>
    THEN CategoryMap[category].detection_threshold[1]
    ELSE sup_call.detection_threshold

\* the requested category is known, not safety-critical, has targets and
\* passes its effective threshold
Contributes(category) ==
    /\ category \in DOMAIN CategoryMap
    /\ ~CategoryMap[category].safety_override
    /\ CategoryMap[category].waveformer_targets # <<>>
    /\ \/ EffectiveThreshold(category) < 0
       \/ EffectiveThreshold(category) <= DictGet(sup_call.smoothed, category, 0)

ExpectedTargets ==
    UNION { Range(CategoryMap[category].waveformer_targets) :
              category \in {c \in Range(sup_call.categories) : Contributes(c)} }

\* C21: in a call with categories that the safety check does not end, the
\* targets collected for the separator are exactly those of the requested
\* categories that are known, not safety-critical, have targets and pass
\* their effective threshold (the configured one if any, else the call's;
\* negative passes always); the separator runs only with that set, and when
\* the set is empty the input is returned without running it.
C21_TargetsAreUnionOfSelected ==
    NotAborted =>
        /\ Range(sup_call.targets) = ExpectedTargets
        /\ ExpectedTargets = {} =>
              sup_call.ret = sup_call.audio /\ sup_call.separated = 0

\* a force-mode call for an unknown category, one without targets, typing
\* and traffic, nothing heard: typing is separated, traffic is held back by
\* its configured threshold
C21_Witness ==
    /\ NotAborted
    /\ sup_call.categories = <<"horn", "wind", "typing", "traffic">>
    /\ sup_call.detection_threshold < 0
    /\ sup_call.smoothed = Quiet
    /\ sup_call.targets = <<"Computer_keyboard">>
    /\ sup_call.separated = 1

\* the peak of the input and the number of samples the subtraction covers
Peak == MaxAbs(sup_call.audio)
MinLen == Min(Len(sup_call.audio), Len(sup_call.unwanted_norm))

\* the scenario: typing alone requested, heard at 0.8 against the threshold
\* 0.5, in a call the safety check does not end
TypingScenario ==
    /\ NotAborted
    /\ sup_call.categories = <<"typing">>
    /\ sup_call.smoothed.typing = 80
    /\ sup_call.detection_threshold = 50

\* C22: when suppress runs the separator, the result has the length of the
\* input; each of the first MinLen samples is the input sample minus
\* aggressiveness times the separator's sample scaled back by the input's
\* peak, and every later sample is the input sample.  In the typing scenario
\* an audible buffer goes to the separator with the targets
\* {"Computer_keyboard"}.
C22_InverseSeparation ==
    /\ (sup_call.op = "suppress" /\ sup_call.separated = 1) =>
          /\ Len(sup_call.ret) = Len(sup_call.audio)
          /\ \A i \in 1..Len(sup_call.audio) :
                IF i <= MinLen
                THEN ONE * ONE * (sup_call.audio[i] - sup_call.ret[i])
                        = sup_call.aggressiveness * sup_call.unwanted_norm[i] * Peak
                ELSE sup_call.ret[i] = sup_call.audio[i]
    /\ (TypingScenario /\ Peak > 0) =>
          /\ sup_call.separated = 1
          /\ Range(sup_call.targets) = {"Computer_keyboard"}

\* the typing scenario with over-subtraction and a separator output one
\* sample short: the first sample is cleaned, the second is the input's
C22_Witness ==
    /\ TypingScenario
    /\ sup_call.separated = 1
    /\ sup_call.audio = <<40, 0 - 20>>
    /\ sup_call.unwanted_norm = <<ONE>>
    /\ sup_call.aggressiveness = 2 * ONE
    /\ sup_call.ret = <<0 - 40, 0 - 20>>

---------------------------------------------------------------------------
(* Properties of the audio worker.                                         *)

\* the separator raised in the last inference cycle
SeparatorRaised == ap_call.raised

\* C10: after an inference cycle in which the separator raised, the frame of
\* that cycle has been written to the output ring buffer as it was read, and,
\* unless a stop was requested, the inference loop, the capture loop and the
\* playback loop are all still running.
C10_SeparatorFailureTolerated ==
    SeparatorRaised =>
        /\ ap_call.mixed = ap_call.chunk
        /\ ~stop_event =>
               /\ worker.main = "inference"
               /\ worker.capture = "running"
               /\ worker.playback = "running"

---------------------------------------------------------------------------
(* Properties of the ControlEngine's audio path.                           *)

Processed == pa_call.op = "process_audio"

\* C11: whenever the suppressor raises inside process_audio, the call still
\* returns, and what it returns is the input buffer: not silence, not a
\* partly processed buffer.
C11_SuppressorErrorPassThrough ==
    (Processed /\ pa_call.suppressor_raised) => pa_call.ret = <<pa_call.audio>>

\* the suppressor was called on an audible buffer and raised
C11_Witness ==
    /\ Processed /\ pa_call.suppressor_raised
    /\ Len(pa_call.suppress_calls) = 1
    /\ pa_call.audio = <<40, 0 - 20>>
    /\ pa_call.ret = <<pa_call.audio>>

\* C12: process_audio returns its input and makes no suppressor call when no
\* flag of the active suppression map is true (empty map or all false);
\* otherwise it makes exactly one suppressor call, with exactly the categories
\* whose flag is true and with safety_check on.
C12_BypassOrDelegate ==
    Processed =>
        IF \A c \in DOMAIN pa_call.suppressions : ~pa_call.suppressions[c]
        THEN pa_call.ret = <<pa_call.audio>> /\ pa_call.suppress_calls = <<>>
        ELSE /\ Len(pa_call.suppress_calls) = 1
             /\ pa_call.suppress_calls[1].safety_check
             /\ \A c \in {"typing", "wind", "traffic"} :
                   c \in pa_call.suppress_calls[1].categories
                       <=> (c \in DOMAIN pa_call.suppressions
                               /\ pa_call.suppressions[c])

\* a map with true and false flags, delegated with the true ones only
C12_Witness ==
    /\ Processed
    /\ pa_call.suppressions = [typing |-> TRUE, wind |-> FALSE, traffic |-> TRUE]
    /\ Len(pa_call.suppress_calls) = 1
    /\ pa_call.suppress_calls[1].categories = {"typing", "traffic"}

\* the bypass on a map whose flags are all false
C12_WitnessBypass ==
    /\ Processed
    /\ pa_call.suppressions = [typing |-> FALSE, wind |-> FALSE]
    /\ pa_call.suppress_calls = <<>>

---------------------------------------------------------------------------
(* Properties of the RingBuffer (SpecRB)                                   *)

\* the last call was a read that found only writes since the buffer was empty
ReadAfterWrites == rb_call.op = "read" /\ rb_call.fresh # <<>>

\* C13: when the writes made on an empty buffer total at most the capacity, a
\* following read of that total returns exactly the written samples, in the
\* order they were written.
C13_WriteThenReadAll ==
    (/\ ReadAfterWrites
     /\ Len(rb_call.fresh[1]) <= RBCapacity
     /\ rb_call.n = Len(rb_call.fresh[1]))
        => rb_call.out = <<rb_call.fresh[1]>>

\* writes that fill an emptied buffer exactly, read back in one read
C13_Witness ==
    /\ ReadAfterWrites
    /\ Len(rb_call.fresh[1]) = RBCapacity
    /\ rb_call.n = RBCapacity
    /\ rb_call.out = <<rb_call.before>>
    /\ rb_call.before[1] > 1
    /\ ring = <<>>

\* C14: read(n) returns exactly the n oldest samples when at least n are
\* buffered; otherwise it returns None and removes nothing, so the buffered
\* samples and available() are as before the call.
C14_ReadAllOrNothing ==
    rb_call.op = "read" =>
        IF Len(rb_call.before) >= rb_call.n
        THEN /\ Len(rb_call.out) = 1
             /\ Len(rb_call.out[1]) = rb_call.n
             /\ rb_call.out[1] \o ring = rb_call.before
        ELSE /\ rb_call.out = <<>>
             /\ ring = rb_call.before
             /\ RingAvailable(ring) = Len(rb_call.before)

\* a read refused on a buffer that holds samples, but fewer than asked for
C14_Witness ==
    /\ rb_call.op = "read"
    /\ Len(rb_call.before) = 2 /\ rb_call.n = 3
    /\ rb_call.out = <<>>
    /\ Len(ring) = 2

\* the last k elements of a sequence
Newest(seq, k) == SubSeq(seq, Len(seq) - k + 1, Len(seq))

\* C15: available() never exceeds the capacity, and a write leaves in the
\* buffer the newest samples of what was buffered followed by what was
\* written, as many as the capacity allows, in write order.
C15_BoundedNewestKept ==
    /\ RingAvailable(ring) <= RBCapacity
    /\ rb_call.op = "write" =>
          ring = Newest(rb_call.before \o rb_call.data,
                        Min(RBCapacity, Len(rb_call.before) + Len(rb_call.data)))

\* a write into a partly filled buffer that does not fit: the oldest
\* buffered sample is gone, the newest written one is last
C15_Witness ==
    /\ rb_call.op = "write"
    /\ Len(rb_call.before) = 2 /\ Len(rb_call.data) = 2
    /\ Len(ring) = RBCapacity
    /\ ring[1] = rb_call.before[2]
    /\ ring[Len(ring)] = rb_call.data[2]

\* C16: however the writer's and the reader's calls interleave, the samples
\* read so far, in read order, are in write order without repetition, and a
\* successful read returns samples that were next to each other at the head
\* of the buffer when it was made.
C16_ReadsInWriteOrder ==
    /\ \A i, j \in 1..Len(rb_read) : i < j => rb_read[i] < rb_read[j]
    /\ \A i \in 1..Len(rb_read) : rb_read[i] \in 1..Len(rb_written)
    /\ (rb_call.op = "read" /\ rb_call.out # <<>>)
          => rb_call.out[1] = SubSeq(rb_call.before, 1, rb_call.n)

\* reads interleaved with writes, with samples lost to an overflow between
\* two reads
C16_Witness ==
    /\ Len(rb_read) >= 3
    /\ \E i \in 1..(Len(rb_read) - 1) : rb_read[i + 1] > rb_read[i] + 1
    /\ rb_call.op = "read" /\ rb_call.out # <<>> /\ rb_call.n = 2

---------------------------------------------------------------------------
(* Properties of the gain smoother                                         *)

\* the bus values a smooth() call found and returned, and its target
PrevOf(key) == DetGet(gs_call.prev, key)
OutOf(key) == gs_call.out[key]
TargetOf(key) == gs_call.target_gains[key]

\* a smooth() call with the targets of the call before it
RepeatedSmooth == gs_call.op = "smooth" /\ gs_call.repeated

\* C17: in every state of a constructed GainSmoother the current "noise"
\* gain is at least the configured noise floor.
C17_NoiseAtLeastFloor ==
    gs # <<>> => gs[1].current["noise"] >= gs[1].noise_floor

\* a smooth() call whose blend for "noise" fell below a positive floor and
\* was raised to it
C17_Witness ==
    /\ gs_call.op = "smooth"
    /\ "noise" \in DOMAIN gs_call.target_gains
    /\ gs[1].noise_floor > 0
    /\ Blend(gs[1].smoothing, PrevOf("noise"), TargetOf("noise")) < gs[1].noise_floor
    /\ gs[1].current["noise"] = gs[1].noise_floor

\* each output is no farther from the target than the one before it and on
\* the same side of it
NoFartherNoOvershoot(key) ==
    /\ Abs(OutOf(key) - TargetOf(key)) <= Abs(PrevOf(key) - TargetOf(key))
    /\ PrevOf(key) <= TargetOf(key) => OutOf(key) <= TargetOf(key)
    /\ PrevOf(key) >= TargetOf(key) => OutOf(key) >= TargetOf(key)

\* C18 as stated: with a constant target the outputs of every bus approach
\* the target monotonically and converge to it; an output that repeats the
\* previous one away from the target stays there on every later call, so
\* convergence needs every such call to move.
C18_ConvergesToTarget ==
    RepeatedSmooth =>
        \A key \in DOMAIN gs_call.target_gains :
            /\ NoFartherNoOvershoot(key)
            /\ OutOf(key) = PrevOf(key) => PrevOf(key) = TargetOf(key)

\* what the outputs of a bus converge to when smoothing is below 1
Limit(key) ==
    IF key = "noise" THEN Max(TargetOf(key), gs[1].noise_floor) ELSE TargetOf(key)

\* C18 (amended): with a constant target each output is no farther from the
\* target than the one before it and never overshoots it; the distance to
\* the target, or to the noise floor for a "noise" target below the floor,
\* shrinks by the factor smoothing on every call (at least by it in the
\* floor case), and with smoothing 1 the output does not move at all.
C18_ApproachesLimit ==
    RepeatedSmooth =>
        \A key \in DOMAIN gs_call.target_gains :
            /\ NoFartherNoOvershoot(key)
            /\ ONE * Abs(OutOf(key) - Limit(key))
                  <= gs[1].smoothing * Abs(PrevOf(key) - Limit(key))
            /\ Limit(key) = TargetOf(key) =>
                  ONE * Abs(OutOf(key) - TargetOf(key))
                      = gs[1].smoothing * Abs(PrevOf(key) - TargetOf(key))
            /\ gs[1].smoothing = ONE => OutOf(key) = PrevOf(key)

\* a third call with the same targets on a smoother with smoothing 0.9 that
\* moved "speech" nearer to a target it has not reached
C18_Witness ==
    /\ RepeatedSmooth
    /\ gs[1].calls = 3
    /\ gs[1].smoothing = 90
    /\ "speech" \in DOMAIN gs_call.target_gains
    /\ OutOf("speech") # TargetOf("speech")
    /\ Abs(OutOf("speech") - TargetOf("speech"))
          < Abs(PrevOf("speech") - TargetOf("speech"))

\* C19 as stated: a new GainSmoother holds 1.0 on every bus except "noise",
\* which holds the configured noise floor.
C19_NewIsPassThrough ==
    gs_call.op = "new" =>
        \A key \in DOMAIN gs[1].current :
            gs[1].current[key]
                = IF key = "noise" THEN gs[1].noise_floor ELSE ONE * Fine

---------------------------------------------------------------------------
(* Properties of the temporal-stability helpers                            *)

\* the confidences of the category's last W observations, W the window size
\* (all of them while fewer were seen)
LastSeen(category) ==
    SubSeq(cb_seen[category],
           Max(1, Len(cb_seen[category]) - cbuf[1].window_size + 1),
           Len(cb_seen[category]))

AboveThreshold(category) ==
    Cardinality({i \in 1..Len(LastSeen(category)) :
                    LastSeen(category)[i] > cbuf[1].threshold})

\* the buffer was given exactly these confidences for "speech" and nothing
\* else
SpeechSeen(confidences) ==
    /\ cbuf # <<>>
    /\ cbuf[1].window_size = 3
    /\ cb_seen = [speech |-> confidences]

\* C23: for every category of an update, the stable flag returned is true
\* exactly when at least 2 of the category's last W observations were above
\* the threshold; window 3, threshold 0.5 and 0.4, 0.4, 0.7, 0.8 give false,
\* false, false, true.
C23_MajorityOfWindow ==
    /\ cbuf # <<>> =>
          \A category \in DOMAIN cb_call.detections :
              cb_call.stable[category] <=> AboveThreshold(category) >= 2
    /\ SpeechSeen(<<40>>) => ~cb_call.stable["speech"]
    /\ SpeechSeen(<<40, 40>>) => ~cb_call.stable["speech"]
    /\ SpeechSeen(<<40, 40, 70>>) => ~cb_call.stable["speech"]
    /\ SpeechSeen(<<40, 40, 70, 80>>) => cb_call.stable["speech"]

\* the fourth update of the example, which turns the flag on
C23_Witness ==
    /\ SpeechSeen(<<40, 40, 70, 80>>)
    /\ cbuf[1].history["speech"] = <<FALSE, TRUE, TRUE>>
    /\ cb_call.stable["speech"]

\* the last update call, and the state of a category after it
LastUpdate == st_log[Len(st_log)]
IsOn(active, category) == DictGet(active, category, FALSE)

\* the trigger was given exactly these confidences for "siren", and returned
\* these values
SirenLog(confidences, rets) ==
    /\ Len(st_log) = Len(confidences)
    /\ \A i \in 1..Len(st_log) :
          /\ st_log[i].category = "siren"
          /\ st_log[i].confidence = confidences[i]
          /\ st_log[i].ret = rets[i]

\* C24: every category starts OFF; an update turns its category ON only if
\* the confidence is above the on threshold, leaves an ON category ON unless
\* the confidence is below the off threshold, returns the category's state
\* and changes no other category.  For on 0.7, off 0.4 the sequence 0.6,
\* 0.72, 0.5, 0.3 gives false, true, true, false.
C24_Hysteresis ==
    /\ st_log = <<>> => \A category \in {"siren", "speech"} : ~IsOn(trig, category)
    /\ st_log # <<>> =>
          /\ IsOn(trig, LastUpdate.category)
                = IF IsOn(LastUpdate.before, LastUpdate.category)
                  THEN ~(LastUpdate.confidence < 40)
                  ELSE LastUpdate.confidence > 70
          /\ LastUpdate.ret = IsOn(trig, LastUpdate.category)
          /\ \A category \in {"siren", "speech"} \ {LastUpdate.category} :
                IsOn(trig, category) = IsOn(LastUpdate.before, category)
    /\ \A rets \in [1..4 -> BOOLEAN] :
          SirenLog(<<60, 72, 50, 30>>, rets) => rets = <<FALSE, TRUE, TRUE, FALSE>>

\* the example's four updates, made on a trigger whose other category is not
\* involved
C24_Witness ==
    /\ SirenLog(<<60, 72, 50, 30>>, <<FALSE, TRUE, TRUE, FALSE>>)
    /\ ~IsOn(trig, "siren")

---------------------------------------------------------------------------
(* Properties of the duty cycle                                            *)

\* C25 as stated: a battery percentage above 50 gives 3 s, from 20 to 50
\* inclusive 8 s, below 20 15 s.
C25_IntervalByBattery ==
    dc_call.battery_percent # <<>> =>
        dc_call.interval[1]
            = IF dc_call.battery_percent[1] > 50 THEN 3
              ELSE IF dc_call.battery_percent[1] >= 20 THEN 8
              ELSE 15

---------------------------------------------------------------------------
(* Properties of the detection thread                                      *)

\* run() has ended: the loop was left, or an exception left run()
Terminated == dthread.pc \in {"exited", "crashed"}

\* the classifier or the callback raised in the current cycle
CycleFailed ==
    dthread.cycle.classify = "raised" \/ dthread.cycle.callback = "raised"

\* the thread is in the sleep of the cycle or past it
Sleeping == dthread.pc \in {"sleep", "check", "exited"}

\* C26: an exception of the classifier or of the callback never ends run():
\* only an exception of the audio accessor does; after a failed
\* classification the callback is not invoked in that cycle; in both cases
\* the thread goes to the sleep, and then on to the next cycle unless it was
\* stopped (or made all the cycles of the model).
C26_ErrorsDoNotEndLoop ==
    /\ [](dthread.pc = "crashed" => dthread.cycle.audio = "raised")
    /\ [](dthread.pc = "exited" => dthread.stop)
    /\ [](dthread.cycle.classify = "raised" => dthread.cycle.callback = "none")
    /\ [](CycleFailed => Sleeping)
    /\ CycleFailed ~> \/ dthread.pc = "get_audio"
                      \/ dthread.stop
                      \/ dthread.cycles = MaxCycles

\* a third cycle that classified, after two cycles in which the classifier
\* or the callback raised, on a thread that was not stopped
C26_Witness ==
    /\ dthread.failed = 2
    /\ dthread.cycles = 3
    /\ dthread.delivered = 1
    /\ dthread.pc = "callback"
    /\ ~dthread.stop

\* C27: while the stop event is set no cycle is started; the event is
\* looked at only at the loop test, which is reached from the sleep; at most
\* one sleep ends after stop() (the cycle that was running is completed);
\* and a started thread that is stopped ends.
C27_StopEndsLoop ==
    /\ [][dthread.stop => dthread'.cycles = dthread.cycles]_vars
    /\ [][(dthread'.pc = "check" /\ dthread.pc # "check")
             => dthread.pc \in {"new", "sleep"}]_vars
    /\ [](dthread.done_after_stop <= 1)
    /\ [](dthread.pc = "exited" => dthread.stop)
    /\ (dthread.stop /\ dthread.pc # "new") ~> Terminated

\* stop() came while the classifier was running: the classification was
\* completed and delivered, the sleep was taken, and the thread then exited
C27_Witness ==
    /\ dthread.stop_at = "classify"
    /\ dthread.cycle.callback = "ok"
    /\ dthread.done_after_stop = 1
    /\ dthread.pc = "exited"

---------------------------------------------------------------------------
(* AutoController: scoring and recommendation                              *)

\* the sum of the detected confidences of the triggers, among the first n,
\* that meet their threshold
RECURSIVE TriggeredSum(_, _, _)
TriggeredSum(triggers, detections, n) ==
    IF n = 0 THEN 0
    ELSE TriggeredSum(triggers, detections, n - 1)
         + (IF DetGet(detections, triggers[n].category) >= triggers[n].threshold
            THEN DetGet(detections, triggers[n].category) ELSE 0)

SumOfTriggered(i, detections) ==
    TriggeredSum(Profiles[i].autoTriggers, detections, Len(Profiles[i].autoTriggers))

HasTriggers(i) == Len(Profiles[i].autoTriggers) > 0

\* C28: the score of a profile is the sum of the detected confidences of its
\* triggers that meet their threshold (0 when none does); a profile without
\* triggers is never scored above 0 and never recommended; and of two
\* triggered profiles the one with the lower triggered confidence is not the
\* one recommended.
C28_ScoreIsSumOfTriggered ==
    ac_call.called =>
        /\ \A i \in 1..Len(Profiles) :
              ac_call.scores[i] = SumOfTriggered(i, ac_call.detections)
        /\ \A i \in 1..Len(Profiles) :
              ~HasTriggers(i) => /\ ac_call.scores[i] = 0
                                 /\ ac_call.profile # Profiles[i].id
        /\ \A i, j \in 1..Len(Profiles) :
              (/\ HasTriggers(i) /\ HasTriggers(j)
               /\ SumOfTriggered(j, ac_call.detections) > 0
               /\ SumOfTriggered(i, ac_call.detections)
                     > SumOfTriggered(j, ac_call.detections))
              => ac_call.profile # Profiles[j].id

\* the profiles evaluate scores, by their place in get_all_profiles()
Scored == {i \in 1..Len(Profiles) : HasTriggers(i)}

\* the profile evaluate is to return for these scores
FirstOfHighest(scores) ==
    IF \A i \in Scored : scores[i] <= 0 THEN None
    ELSE Profiles[CHOOSE i \in Scored :
                     /\ scores[i] > 0
                     /\ \A j \in Scored : scores[j] <= scores[i]
                     /\ \A j \in Scored : j < i => scores[j] < scores[i]].id

\* C29: evaluate recommends the profile whose score is the highest and above
\* 0, the first such profile in the order of get_all_profiles() when several
\* share that score, and no profile when no score is above 0; and the same
\* detections always get the same recommendation.
C29_StrictlyHighestFirstOnTies ==
    /\ [](ac_call.called => ac_call.profile = FirstOfHighest(ac_call.scores))
    /\ [][(ac_call.called /\ ac_call'.detections = ac_call.detections)
            => ac_call'.profile = ac_call.profile]_vars

\* two profiles share the highest score and the first of them is recommended
C29_Witness ==
    /\ ac_call.called
    /\ \E i, j \in Scored :
          /\ i < j
          /\ ac_call.scores[i] > 0
          /\ ac_call.scores[i] = ac_call.scores[j]
          /\ \A k \in Scored : ac_call.scores[k] <= ac_call.scores[i]
          /\ ac_call.profile = Profiles[i].id

---------------------------------------------------------------------------
(* ControlEngine: profile switching in Auto mode                           *)

\* C30: after an on_detection_update(d) made in Auto mode that found no
\* safety override active, a profile the AutoController recommends for d is
\* the active profile, whatever profile was active before the call, one with
\* auto-triggers of its own included.
C30_AutoSwitchesToRecommended ==
    (/\ Updated(ce_call) /\ mode = AUTO
     /\ ~ce_call.active /\ ~ce_call.raised
     /\ GetRecommendation(last_detections).profile # None)
    => current_profile = GetRecommendation(last_detections).profile

---------------------------------------------------------------------------
(* ControlEngine: detections in Manual mode                                *)

\* C31: an on_detection_update(d) made in Manual mode that finds no safety
\* override active completes normally, records d as the last detections and
\* leaves the active profile and the current gains as they were, whatever
\* triggers d satisfies.
C31_ManualOnlyRecords ==
    [][(Updated(ce_call') /\ mode' = MANUAL /\ ~ce_call'.active) =>
          /\ ~ce_call'.raised
          /\ last_detections' \in Detections
          /\ current_profile' = current_profile
          /\ current_gains' = current_gains]_vars

---------------------------------------------------------------------------
(* ControlEngine: concurrent callers                                       *)

\* a thread that has made some but not all of the accesses of its call to
\* the engine's state; a thread inside the suppressor call is not one
InRegion(t) == callers[t].pc = "apply_gains"

\* C32: with process_audio calls and profile switches running concurrently
\* on one engine, no call raises, every process_audio call returns audio of
\* the shape of its input, and the accesses of a call to the engine's state
\* exclude those of every other call (but not the suppressor call): two
\* threads are never both in the middle of them, and when no switch is under
\* way the current gains are those of the active profile.
C32_CallsExcludeEachOther ==
    /\ \A t \in 1..MaxThreads :
          /\ ~callers[t].raised
          /\ callers[t].ret # <<>> => Len(callers[t].ret[1]) = Len(callers[t].audio)
    /\ \A t, u \in 1..MaxThreads : (InRegion(t) /\ InRegion(u)) => t = u
    /\ (\A t \in 1..MaxThreads : ~InRegion(t))
          => current_gains = ProfileGains(current_profile)

---------------------------------------------------------------------------
(* The gain queue: the latest update wins                                  *)

\* the update sent last is in the queue, in the hands of the worker, or the
\* one the worker smoothed toward last
LatestKept ==
    \/ gain_queue # <<>> /\ Last(gain_queue).n = gq.sent
    \/ gq.w_gains # <<>> /\ gq.w_gains[1].n = gq.sent
    \/ gq.applied # <<>> /\ Last(gq.applied).n = gq.sent

\* C33: of the gain updates sent before a drain the worker smooths toward
\* the one sent last only; an update is never smoothed toward after one sent
\* later nor after a drain that began when a later one had been sent, and
\* once set_gains has returned its update is not lost to an earlier one,
\* however the queue operations of set_gains and of _drain_gains interleave.
C33_LatestUpdateWins ==
    /\ \A i, j \in 1..Len(gq.applied) : i < j => gq.applied[i].n < gq.applied[j].n
    /\ (gq.s_pc = "idle" /\ gq.sent > 0) => LatestKept
    /\ gq.pending => /\ smoother = Smooth(gq.before, Last(gq.applied).gains)
                     /\ Last(gq.applied).n >= gq.began

\* two updates were sent before the worker took any; the worker has smoothed
\* toward the second and never toward the first
C33_Witness ==
    /\ gq.sent = 2 /\ gq.s_pc = "idle"
    /\ gq.pending
    /\ Len(gq.applied) = 1
    /\ gq.applied[1].n = 2
    /\ smoother # gq.before

---------------------------------------------------------------------------
(* SemanticSuppressor: safety-critical categories                          *)

\* the categories the mapping marks as safety-critical
SafetyCritical == {c \in DOMAIN CategoryMap : CategoryMap[c].safety_override}

\* the targets of the requested categories that are not safety-critical
NonCriticalTargets ==
    UNION { Range(CategoryMap[c].waveformer_targets) :
              c \in (Range(sup_call.categories) \cap DOMAIN CategoryMap)
                        \ SafetyCritical }

\* C34: whatever the request, every target suppress collects is a target of
\* a requested category that is not safety-critical; a safety-critical
\* category adds none of its own, also with safety_check off, when it is
\* requested by name, and in force mode.
C34_CriticalNeverTargeted ==
    sup_call.op = "suppress" =>
        /\ Range(sup_call.targets) \subseteq NonCriticalTargets
        /\ \A c \in SafetyCritical :
              Range(CategoryMap[c].waveformer_targets) \cap Range(sup_call.targets)
                  \subseteq NonCriticalTargets

\* siren requested by name with traffic, heard, safety_check off, in force
\* mode by its own threshold: the separator runs for traffic alone
C34_Witness ==
    /\ sup_call.op = "suppress"
    /\ ~sup_call.safety_check
    /\ sup_call.categories = <<"siren", "traffic">>
    /\ sup_call.smoothed.siren = 80
    /\ CategoryMap["siren"].detection_threshold[1] < 0
    /\ sup_call.separated = 1
    /\ sup_call.targets = <<"car_horn", "engine">>

---------------------------------------------------------------------------
(* The queues: sends never block                                           *)

\* C35: no send on a queue blocks or raises.  A set_gains call that has
\* reached its put_nowait, and the worker's push of a level message, can
\* complete whatever the queue holds; on a full queue they return with the
\* queue as it was, the message dropped; and the queues never hold more than
\* their bounds, 8 gain updates and 16 level messages.
C35_SendsNeverBlock ==
    /\ [](/\ Len(gain_queue) <= GAIN_QUEUE_MAXSIZE
          /\ Len(detection_queue) <= DETECTION_QUEUE_MAXSIZE
          /\ (ch.put > 0 => ENABLED CH_SenderPut)
          /\ ENABLED CH_PushLevels)
    /\ [][/\ (ch'.put < ch.put /\ Len(gain_queue) >= GAIN_QUEUE_MAXSIZE)
                => (gain_queue' = gain_queue /\ ch'.gain = "dropped")
          /\ (ch'.put < ch.put /\ Len(gain_queue) < GAIN_QUEUE_MAXSIZE)
                => (gain_queue' = Append(gain_queue, GainMessage) /\ ch'.gain = "put")
          /\ (ch'.level = "dropped" /\ ch.level # "dropped")
                => detection_queue' = detection_queue]_vars

\* both queues are full, and the last send on each was dropped
C35_Witness ==
    /\ Len(gain_queue) = GAIN_QUEUE_MAXSIZE
    /\ ch.gain = "dropped"
    /\ Len(detection_queue) = DETECTION_QUEUE_MAXSIZE
    /\ ch.level = "dropped"

---------------------------------------------------------------------------
(* The audio worker: shutdown                                              *)

\* a loop of the worker that no longer touches the audio device
LoopStopped(state) == state \in {"returned", "killed"}

\* C36: when the worker has closed the audio device, the capture loop and the
\* playback loop have both stopped using it; a worker is terminated only after
\* its shutdown event was set and the join was waited for; and once
\* MixerController.stop has returned, is_running() is false.
C36_CloseAfterLoopsStop ==
    /\ worker.main = "closed"
          => (LoopStopped(worker.capture) /\ LoopStopped(worker.playback))
    /\ worker.main = "terminated" => stop_event
    /\ controller.stopped => ~IsRunning

---------------------------------------------------------------------------
(* DetectionThread: a cycle without audio                                  *)

\* the current cycle got "no data" from the audio accessor
NoData == dthread.cycle.audio = "no_data"

\* C37: in a cycle whose get_audio() returned None neither the classifier nor
\* the callback is invoked and the thread goes to the sleep of the cycle;
\* from the accessor's return to the start of the next cycle the stability
\* stack and the number of callback invocations stay as they were; and the
\* sleep of the cycle lasts the interval computed at its start, as in any
\* other cycle.
C37_NoDataSkipsCycle ==
    /\ [](NoData => /\ dthread.cycle.classify = "none"
                    /\ dthread.cycle.callback = "none"
                    /\ Sleeping)
    /\ [][dthread'.cycle.audio = "no_data"
             => /\ dthread'.stack = dthread.stack
                /\ dthread'.delivered = dthread.delivered
                /\ dthread'.failed = dthread.failed]_vars
    /\ [][(NoData /\ dthread.pc = "sleep" /\ dthread'.pc = "check")
             => dthread'.slept <= dthread.interval]_vars

\* a cycle without audio has slept its interval, after a cycle that
\* classified and delivered
C37_Witness ==
    /\ NoData
    /\ dthread.pc = "check"
    /\ dthread.cycles = 2
    /\ dthread.stack = 1
    /\ dthread.delivered = 1
    /\ dthread.slept = dthread.interval
    /\ dthread.slept > 0

---------------------------------------------------------------------------
(* SafetyOverride: the state machine                                       *)

\* the transitions of the state machine (safety_override.py, lines 230-239)
Transitions ==
    { <<NORMAL, OVERRIDE_ACTIVE>>, <<OVERRIDE_ACTIVE, OVERRIDE_FADING>>,
      <<OVERRIDE_FADING, NORMAL>>, <<OVERRIDE_FADING, OVERRIDE_ACTIVE>>,
      <<OVERRIDE_ACTIVE, OVERRIDE_ACTIVE>> }

\* C38: a check() that changes the status makes one of the transitions of the
\* state machine: NORMAL to OVERRIDE_ACTIVE, OVERRIDE_ACTIVE to
\* OVERRIDE_FADING, OVERRIDE_FADING to NORMAL, or any status to
\* OVERRIDE_ACTIVE; never NORMAL to OVERRIDE_FADING, never OVERRIDE_ACTIVE to
\* NORMAL.
C38_StatusTransitions ==
    (Checked /\ safety_override.status # so_call.prev_status)
        => <<so_call.prev_status, safety_override.status>> \in Transitions

\* C39: after any sequence of check(), apply_override() and reset() calls,
\* with any detections and a clock that never goes back, is_active() is true
\* exactly when the status is not NORMAL.
C39_ActiveIffNotNormal ==
    IsActive(safety_override) <=> safety_override.status # NORMAL

\* a check after the hold time has ended the fading and left an alert that
\* is not active
C39_Witness ==
    /\ so_call.op = "check"
    /\ so_call.prev_status = OVERRIDE_FADING
    /\ safety_override.status = NORMAL
    /\ safety_override.current_alert # <<>>
    /\ ~IsActive(safety_override)

---------------------------------------------------------------------------
(* The audio worker: smoothing toward the last update                      *)

Dist(a, b) == IF a >= b THEN a - b ELSE b - a

\* far enough apart for one blend step to move a gain by a hundredth
Far(a, b) == Dist(a, b) * (ONE - SMOOTHING) >= ONE

\* where the gains settle for a requested target: the target, with the noise
\* at the floor if requested below it
Settled(target) ==
    [target EXCEPT !["noise"] = Max(target["noise"], NOISE_FLOOR)]

\* C40: a cycle of the worker that finds no pending update keeps the applied
\* gains moving toward the update applied last: every bus that is still far
\* from where it settles for that update ends the cycle closer to it.
C40_ProgressContinues ==
    [][(/\ gq.w_pc = "get" /\ gq'.w_pc = "idle"
        /\ gq.w_gains = <<>>
        /\ gq.applied # <<>>)
          => \A b \in Buses :
                Far(smoother[b], Settled(Last(gq.applied).gains)[b])
                   => Dist(smoother'[b], Settled(Last(gq.applied).gains)[b])
                         < Dist(smoother[b], Settled(Last(gq.applied).gains)[b])]_vars

=============================================================================
